---------------------------- MODULE Spec2Model ----------------------------
(***************************************************************************)
(* MGS bedrock cross-section tools: the five batch scripts of src/Scripts  *)
(* as state machines.  One behaviour runs one script from its parameters   *)
(* (section 2 of each script) to its last statement or to the statement    *)
(* that raises.  Geoprocessing calls of the GIS library are steps on the   *)
(* geodatabase `gdb`; the script's own arithmetic and list handling is     *)
(* computed as Python computes it.                                          *)
(*                                                                         *)
(* Numbers: Python floats are modelled as exact rationals <<n, d>> with    *)
(* d > 0 in lowest terms; Python ints are integers.                        *)
(***************************************************************************)
EXTENDS Integers, Sequences, FiniteSets, TLC

VARIABLES
    script,     \* which of the five scripts this run executes
    mode,       \* "tool": len(sys.argv) > 1, "test": hard-coded parameters
    pc,         \* the section of the script about to run, "done" or "error"
    inputs,     \* the input datasets, by the name of the script variable
    locals,     \* the script's assigned variables (name -> value)
    gdb,        \* the datasets of the output geodatabase (name -> dataset)
    messages    \* what the run reported: error reports, failed deletes and
                \* the closing elapsed-time message, in order

vars == <<script, mode, pc, inputs, locals, gdb, messages>>

-----------------------------------------------------------------------------
(* Bounds of the model                                                     *)

MaxInterval == 3     \* vertical intervals are drawn from 1..MaxInterval
MaxSpan == 6         \* max_z - min_z is drawn from 1..MaxSpan
MaxHorizK == 4       \* horizontal intervals are HorizUnit * (1..MaxHorizK)
MaxVE == 2           \* vertical exaggerations -MaxVE..MaxVE besides 50

-----------------------------------------------------------------------------
(* Exact rationals standing for Python floats                              *)

Abs(n) == IF n < 0 THEN -n ELSE n

RECURSIVE GCD(_, _)
GCD(a, b) == IF b = 0 THEN a ELSE GCD(b, a % b)

\* n/d in lowest terms with a positive denominator (d # 0)
Rat(n, d) ==
    LET g == GCD(Abs(n), Abs(d))
        s == IF d < 0 THEN -1 ELSE 1
    IN  <<(s * n) \div g, (s * d) \div g>>

ToRat(n) == <<n, 1>>
RatDiv(a, b) == Rat(a[1] * b[2], a[2] * b[1])
RatMul(a, b) == Rat(a[1] * b[1], a[2] * b[2])
RatAdd(a, b) == Rat(a[1] * b[2] + b[1] * a[2], a[2] * b[2])
RatLE(a, b) == a[1] * b[2] <= b[1] * a[2]
RatLT(a, b) == a[1] * b[2] < b[1] * a[2]

\* Python int(x) of a float: truncation toward zero
PyInt(a) == IF a[1] >= 0 THEN a[1] \div a[2] ELSE -((-a[1]) \div a[2])

\* the literal 0.3048 (metres per foot) of the unit conversion
FootInMetres == Rat(3048, 10000)

-----------------------------------------------------------------------------
(* Python built-ins                                                        *)

Range(s) == {s[i] : i \in DOMAIN s}

\* list(range(start, stop, step)) for step > 0
PyRange(start, stop, step) ==
    LET n == IF stop > start THEN (stop - start + step - 1) \div step ELSE 0
    IN  [i \in 1..n |-> start + (i - 1) * step]

\* list.remove(x): drops the first element equal to x
ListRemove(list, x) ==
    LET k == CHOOSE i \in DOMAIN list :
                 list[i] = x /\ \A j \in 1..(i - 1) : list[j] # x
    IN  SubSeq(list, 1, k - 1) \o SubSeq(list, k + 1, Len(list))

\* round(n, -3) of an int: to the nearest 1000, a tie to the even thousand
PyRoundThousands(n) ==
    LET q == n \div 1000
        r == n % 1000
    IN  IF r < 500 THEN q * 1000
        ELSE IF r > 500 THEN (q + 1) * 1000
        ELSE IF q % 2 = 0 THEN q * 1000 ELSE (q + 1) * 1000

\* printit / printerror: the kind of report and what it is about
Message(kind, about) == [kind |-> kind, about |-> about]

\* 'Tool completed at {0}. Elapsed time: {1}. Youre a wizard!'
ToolCompleted == Message("completed", "")

\* name = value in the script's namespace
Assign(l, new) == new @@ l

\* CreateFeatureclass / CreateTable with env.overwriteOutput = True
CreateDataset(g, name, fields) == (name :> [fields |-> fields, rows |-> <<>>]) @@ g

\* InsertCursor.insertRow
InsertRows(g, name, rows) == [g EXCEPT ![name].rows = @ \o rows]


-----------------------------------------------------------------------------
(* Input data                                                              *)

MaxTraces == 2       \* a trace file holds at most MaxTraces lines

\* A cross-section line: its ID, an attribute of its own, and its vertices in
\* order, each with its map X coordinate (metres) and its arc-length position
\* M from the first vertex.  No segment runs along a probe line (X constant
\* over a segment).
TraceA == [id |-> "A", county |-> "Anoka",
           verts |-> <<[X |-> 400, M |-> 0], [X |-> 2600, M |-> 3048]>>]
TraceB == [id |-> "B", county |-> "Benton",
           verts |-> <<[X |-> 300, M |-> 0], [X |-> 1300, M |-> 1000],
                       [X |-> 700, M |-> 1700]>>]
TraceC == [id |-> "C", county |-> "Carver",
           verts |-> <<[X |-> 1200, M |-> 0], [X |-> 1450, M |-> 1000]>>]
Traces == {TraceA, TraceB, TraceC}

\* the trace files: up to MaxTraces distinct lines in any order
XslnFiles ==
    UNION {{f \in [1..n -> Traces] : \A i, j \in 1..n : i # j => f[i] # f[j]} :
           n \in 0..MaxTraces}

\* the names a trace-ID field parameter takes
IdFieldNames == {"et_id", "xsec_no"}

-----------------------------------------------------------------------------
(* CreateReferenceGrid.py                                                  *)

\* section 2, else branch: the hard-coded parameters
GridHardCoded ==
    [xsln_id_field |-> "et_id", vertical_exaggeration |-> 50,
     min_z |-> 0, max_z |-> 2500,
     major_vert_interval |-> 50, minor_vert_interval |-> 10,
     major_horiz_interval |-> 1000, minor_horiz_interval |-> 250]

HorizUnit == 250

\* section 2, tool branch: int(GetParameterAsText(i)); one group of
\* parameters varies at a time, the others keep the values above
GridToolParams ==
    {[GridHardCoded EXCEPT !.min_z = lo, !.max_z = lo + span,
                           !.major_vert_interval = mj, !.minor_vert_interval = mn] :
        lo \in -1..1, span \in 1..MaxSpan,
        mj \in 1..MaxInterval, mn \in 1..MaxInterval}
    \cup
    {[GridHardCoded EXCEPT !.major_horiz_interval = HorizUnit * mj,
                           !.minor_horiz_interval = HorizUnit * mn] :
        mj \in 1..MaxHorizK, mn \in 1..MaxHorizK}
    \cup
    {[GridHardCoded EXCEPT !.vertical_exaggeration = v, !.xsln_id_field = f] :
        v \in (-MaxVE)..MaxVE, f \in IdFieldNames}

\* (mutant) the length of the last trace instead of the greatest
max_length_last(file, sofar) ==
    IF file = <<>> THEN sofar ELSE ToRat(file[Len(file)].verts[Len(file[Len(file)].verts)].M)

\* section 3: the greatest SHAPE@LENGTH of the trace file, from 0
RECURSIVE max_length(_, _)
max_length(file, sofar) ==
    IF file = <<>> THEN sofar
    ELSE LET length == ToRat(file[1].verts[Len(file[1].verts)].M)
         IN  max_length(Tail(file), IF RatLT(sofar, length) THEN length ELSE sofar)

SetMin(S) == CHOOSE x \in S : \A y \in S : x <= y
SetMax(S) == CHOOSE x \in S : \A y \in S : x >= y

\* Describe(xsln_file).Extent: the X range of all vertices; of an empty file
\* the library reports not-a-number, or zeros
Extents(file) ==
    LET xs == UNION {{file[i].verts[k].X : k \in DOMAIN file[i].verts} : i \in DOMAIN file}
    IN  IF file = <<>>
        THEN {[nan |-> TRUE, XMin |-> 0, XMax |-> 0], [nan |-> FALSE, XMin |-> 0, XMax |-> 0]}
        ELSE {[nan |-> FALSE, XMin |-> SetMin(xs), XMax |-> SetMax(xs)]}

\* lines 95-99: the x range, one major interval wider, rounded to thousands
utmx_min(ext, major_horiz_interval) ==
    PyRoundThousands(PyInt(ToRat(ext.XMin)) - major_horiz_interval)
utmx_max(ext, major_horiz_interval) ==
    PyRoundThousands(PyInt(ToRat(ext.XMax)) + major_horiz_interval)

\* line 102
min_x_disp == 0

\* map view to cross-section view: metres to feet, divided by the exaggeration
\* (lines 288 and 328, and inside int() on line 104)
GridDisplayX(x_raw, vertical_exaggeration) ==
    RatDiv(RatDiv(x_raw, FootInMetres), ToRat(vertical_exaggeration))

\* line 104
max_x_disp(length, vertical_exaggeration) ==
    PyInt(GridDisplayX(length, vertical_exaggeration))

\* lines 130-132 and 235-237: "for v in minor: if v in major: minor.remove(v)".
\* The list iterator reads minor[i] for i = 0, 1, ... while i < len(minor),
\* on the list as the removals have left it.  One iteration, on <<list, i>>:
RemoveMajorStep(st, major) ==
    LET minor == st[1]
        i == st[2]
    IN  IF i > Len(minor) THEN st
        ELSE IF minor[i] \in Range(major)
             THEN <<ListRemove(minor, minor[i]), i + 1>>
             ELSE <<minor, i + 1>>

\* n iterations (split in halves to keep the evaluation shallow)
RECURSIVE RemoveMajorIter(_, _, _)
RemoveMajorIter(st, n, major) ==
    IF n = 0 THEN st
    ELSE IF n = 1 THEN RemoveMajorStep(st, major)
    ELSE LET mid == RemoveMajorIter(st, n \div 2, major)
         IN  IF mid[2] > Len(mid[1]) THEN mid   \* the iterator is exhausted
             ELSE RemoveMajorIter(mid, n - (n \div 2), major)

\* the whole loop: it ends within len(minor) iterations
RemoveMajorLoop(minor, major) ==
    RemoveMajorIter(<<minor, 1>>, Len(minor), major)[1]

\* lines 141-155: keep what lies within one minor interval of [min_z, max_z]
WithinSlack(raw, below_min_z, above_max_z) ==
    SelectSeq(raw, LAMBDA elevation :
                       ~(elevation < below_min_z) /\ ~(elevation > above_max_z))

Point(x, y) == [X |-> x, Y |-> y]

\* (mutant) the rank of the second loop written by both loops
ElevationRowsAllMinor(elevations, line_rank, l) ==
    [i \in DOMAIN elevations |->
        [label |-> elevations[i], rank |-> "minor",
         SHAPE |-> <<Point(ToRat(l.min_x_disp), elevations[i]),
                     Point(ToRat(l.max_x_disp), elevations[i])>>]]

\* lines 162-195: one horizontal line per elevation, across the display width
ElevationRows(elevations, line_rank, l) ==
    [i \in DOMAIN elevations |->
        [label |-> elevations[i], rank |-> line_rank,
         SHAPE |-> <<Point(ToRat(l.min_x_disp), elevations[i]),
                     Point(ToRat(l.max_x_disp), elevations[i])>>]]

RECURSIVE Flatten(_)
Flatten(ss) == IF ss = <<>> THEN <<>> ELSE Head(ss) \o Flatten(Tail(ss))

RECURSIVE SortRats(_)
SortRats(S) ==
    IF S = {} THEN <<>>
    ELSE LET m == CHOOSE x \in S : \A y \in S : RatLE(x, y)
         IN  <<m>> \o SortRats(S \ {m})

\* lines 275-286: where the probe line X = utmx meets the trace, as arc-length
\* positions (Polyline.intersect, then measureOnLine of each point)
IntersectMeasures(trace, utmx) ==
    LET v == trace.verts
        hit(k) == /\ v[k].X # v[k + 1].X
                  /\ SetMin({v[k].X, v[k + 1].X}) <= utmx
                  /\ utmx <= SetMax({v[k].X, v[k + 1].X})
        at(k) == RatAdd(ToRat(v[k].M),
                        Rat((v[k + 1].M - v[k].M) * (utmx - v[k].X),
                            v[k + 1].X - v[k].X))
    IN  SortRats({at(k) : k \in {j \in 1..(Len(v) - 1) : hit(j)}})

\* lines 262-299 and 302-339: the vertical lines of one trace for one list
UtmxRows(trace, utmx_list, rank, l) ==
    Flatten([i \in DOMAIN utmx_list |->
        LET x_raws == IntersectMeasures(trace, utmx_list[i])
        IN  [k \in DOMAIN x_raws |->
                LET x == GridDisplayX(x_raws[k], l.vertical_exaggeration)
                IN  ("SHAPE" :> <<Point(x, l.min_z), Point(x, l.max_z)>>) @@
                    ("label" :> utmx_list[i]) @@ ("rank" :> rank) @@
                    (l.xsln_id_field :> trace.id)]])

\* the vertical lines written list by list: the major lines of every trace,
\* then the minor lines of every trace
XcoordRowsByRank(file, l) ==
    Flatten([i \in DOMAIN file |-> UtmxRows(file[i], l.major_utmx, "major", l)]) \o
    Flatten([i \in DOMAIN file |-> UtmxRows(file[i], l.minor_utmx, "minor", l)])

\* lines 248-339: per trace, the major lines and then the minor lines
XcoordRows(file, l) ==
    Flatten([i \in DOMAIN file |->
        UtmxRows(file[i], l.major_utmx, "major", l) \o
        UtmxRows(file[i], l.minor_utmx, "minor", l)])

\* an uncaught Python exception ends the run
Raise(l, exception) == Assign(l, [exception |-> exception])

\* section 3 (lines 73-104): extents
GridSection3 ==
    /\ script = "grid" /\ pc = "s3"
    /\ \E ext \in Extents(inputs.xsln_file) :
          LET l1 == Assign(locals, [max_length |-> max_length(inputs.xsln_file, ToRat(0))])
              l2 == Assign(l1, [utmx_min |-> utmx_min(ext, locals.major_horiz_interval),
                                utmx_max |-> utmx_max(ext, locals.major_horiz_interval),
                                min_x_disp |-> min_x_disp])
          IN  IF ext.nan
              THEN locals' = Raise(l1, "ValueError") /\ pc' = "error"
              ELSE IF locals.vertical_exaggeration = 0
              THEN locals' = Raise(l2, "ZeroDivisionError") /\ pc' = "error"
              ELSE /\ locals' = Assign(l2, [max_x_disp |->
                            max_x_disp(l1.max_length, locals.vertical_exaggeration)])
                   /\ pc' = "s4"
    /\ UNCHANGED <<script, mode, inputs, gdb, messages>>

\* sections 4-5 (lines 108-123): the empty elevation line file and its fields
GridSection4 ==
    /\ script = "grid" /\ pc = "s4"
    /\ gdb' = CreateDataset(gdb, "elevation_ref_lines", <<"SHAPE", "label", "rank">>)
    /\ pc' = "s6"
    /\ UNCHANGED <<script, mode, inputs, locals, messages>>

\* section 6 (lines 126-132): the elevation lists
GridSection6 ==
    /\ script = "grid" /\ pc = "s6"
    /\ LET major == PyRange(locals.min_z, locals.max_z, locals.major_vert_interval)
           minor == PyRange(locals.min_z, locals.max_z, locals.minor_vert_interval)
       IN  locals' = Assign(locals, [major_elevations_raw |-> major,
                                     minor_elevations_raw |-> RemoveMajorLoop(minor, major)])
    /\ pc' = "s7"
    /\ UNCHANGED <<script, mode, inputs, gdb, messages>>

\* section 7 (lines 136-155): the lists trimmed to the elevation range
GridSection7 ==
    /\ script = "grid" /\ pc = "s7"
    /\ LET below_min_z == locals.min_z - locals.minor_vert_interval
           above_max_z == locals.max_z + locals.minor_vert_interval
       IN  locals' = Assign(locals,
              [below_min_z |-> below_min_z, above_max_z |-> above_max_z,
               major_elevations |->
                   WithinSlack(locals.major_elevations_raw, below_min_z, above_max_z),
               minor_elevations |->
                   WithinSlack(locals.minor_elevations_raw, below_min_z, above_max_z)])
    /\ pc' = "s8"
    /\ UNCHANGED <<script, mode, inputs, gdb, messages>>

\* section 8 (lines 162-195): the major lines, then the minor lines
GridSection8 ==
    /\ script = "grid" /\ pc = "s8"
    /\ gdb' = InsertRows(gdb, "elevation_ref_lines",
                  ElevationRows(locals.major_elevations, "major", locals) \o
                  ElevationRows(locals.minor_elevations, "minor", locals))
    /\ pc' = "s9"
    /\ UNCHANGED <<script, mode, inputs, locals, messages>>

\* section 9 (lines 212-218): the empty x coordinate line file and its fields
GridSection9 ==
    /\ script = "grid" /\ pc = "s9"
    /\ gdb' = CreateDataset(gdb, "xcoord_ref_lines",
                  <<"SHAPE", "label", "rank", locals.xsln_id_field>>)
    /\ pc' = "s10"
    /\ UNCHANGED <<script, mode, inputs, locals, messages>>

\* section 10 (lines 231-237): the x coordinate lists
GridSection10 ==
    /\ script = "grid" /\ pc = "s10"
    /\ LET major == PyRange(locals.utmx_min, locals.utmx_max, locals.major_horiz_interval)
           minor == PyRange(locals.utmx_min, locals.utmx_max, locals.minor_horiz_interval)
       IN  locals' = Assign(locals, [major_utmx |-> major,
                                     minor_utmx |-> RemoveMajorLoop(minor, major)])
    /\ pc' = "s11"
    /\ UNCHANGED <<script, mode, inputs, gdb, messages>>

\* section 11 (lines 248-339): the vertical lines of every trace, and
\* section 12 (lines 343-345): the closing message
GridSection11 ==
    /\ script = "grid" /\ pc = "s11"
    /\ gdb' = InsertRows(gdb, "xcoord_ref_lines", XcoordRows(inputs.xsln_file, locals))
    /\ messages' = Append(messages, ToolCompleted)
    /\ pc' = "done"
    /\ UNCHANGED <<script, mode, inputs, locals>>

NoDatasets == [n \in {} |-> <<>>]

InitGrid ==
    /\ script = "grid"
    /\ \/ mode = "test" /\ locals = GridHardCoded
       \/ mode = "tool" /\ locals \in GridToolParams
    /\ inputs \in {[xsln_file |-> f] : f \in XslnFiles}
    /\ pc = "s3"
    /\ gdb = NoDatasets
    /\ messages = <<>>

NextGrid ==
    \/ GridSection3 \/ GridSection4 \/ GridSection6 \/ GridSection7
    \/ GridSection8 \/ GridSection9 \/ GridSection10 \/ GridSection11

SpecGrid == InitGrid /\ [][NextGrid]_vars

-----------------------------------------------------------------------------
(* Reference grid: the claims                                              *)

Assigned(name) == name \in DOMAIN locals

RowsOf(name) == IF name \in DOMAIN gdb THEN gdb[name].rows ELSE <<>>

GridLengths == {ToRat(inputs.xsln_file[i].verts[Len(inputs.xsln_file[i].verts)].M) :
                    i \in DOMAIN inputs.xsln_file}

\* C1: after the removal loops no value is in both the major and the minor
\* list, for the elevations and for the x coordinates.
C1_NoValueMajorAndMinor ==
    script = "grid" =>
        /\ Assigned("minor_elevations_raw") =>
              Range(locals.major_elevations_raw) \cap Range(locals.minor_elevations_raw) = {}
        /\ Assigned("minor_utmx") =>
              Range(locals.major_utmx) \cap Range(locals.minor_utmx) = {}

MajorRowsLabelled(v) ==
    {i \in DOMAIN RowsOf("elevation_ref_lines") :
        /\ RowsOf("elevation_ref_lines")[i].rank = "major"
        /\ RowsOf("elevation_ref_lines")[i].label = v}

ElevationLinesWritten == script = "grid" /\ pc \in {"s9", "s10", "s11", "done"}

\* C2 as stated: every multiple v of the major vertical interval with
\* min_z <= v <= max_z has exactly one row of rank 'major' and label v.
C2_EveryMajorMultipleOneRow ==
    ElevationLinesWritten =>
        \A v \in locals.min_z..locals.max_z :
            v % locals.major_vert_interval = 0 => Cardinality(MajorRowsLabelled(v)) = 1

\* C2 amended: every value v = min_z + k * major interval (k = 0, 1, ...) with
\* min_z <= v < max_z has exactly one row of rank 'major' and label v.
C2_EveryMajorStepOneRow ==
    ElevationLinesWritten =>
        \A v \in locals.min_z..(locals.max_z - 1) :
            (v - locals.min_z) % locals.major_vert_interval = 0
                => Cardinality(MajorRowsLabelled(v)) = 1

C2_Witness ==
    /\ ElevationLinesWritten
    /\ locals.min_z % locals.major_vert_interval # 0
    /\ locals.max_z % locals.major_vert_interval = 0
    /\ Cardinality({v \in locals.min_z..locals.max_z : MajorRowsLabelled(v) # {}}) >= 2

\* C3: no element of minor_elevations is divisible by the major vertical
\* interval and no element of minor_utmx by the major horizontal interval.
C3_NoMajorMultipleInMinor ==
    script = "grid" =>
        /\ Assigned("minor_elevations") =>
              \A i \in DOMAIN locals.minor_elevations :
                  locals.minor_elevations[i] % locals.major_vert_interval # 0
        /\ Assigned("minor_utmx") =>
              \A i \in DOMAIN locals.minor_utmx :
                  locals.minor_utmx[i] % locals.major_horiz_interval # 0

\* C4: the final minor elevation list is exactly the values min_z + k * minor
\* interval below max_z that are not in the major list.
C4_MinorIsRawMinusMajor ==
    (script = "grid" /\ Assigned("minor_elevations")) =>
        Range(locals.minor_elevations) =
            {v \in locals.min_z..(locals.max_z - 1) :
                /\ (v - locals.min_z) % locals.minor_vert_interval = 0
                /\ v \notin Range(locals.major_elevations)}

\* the greatest trace length, 0 for an empty file
IsGreatestLength(L) ==
    /\ \A x \in GridLengths : RatLE(x, L)
    /\ L \in GridLengths \cup {ToRat(0)}

-----------------------------------------------------------------------------
(* Get_CWI_data_dev.py                                                     *)

MaxWells == 2        \* the statewide well file holds at most MaxWells wells
MaxConstr == 2       \* the construction table holds at most MaxConstr records

\* a table value that may be missing: None is <<>>, a number v is <<v>>
Null == <<>>
Some(v) == <<v>>

\* a well of the statewide file: its relate-ID, its surface elevation and the
\* traces whose buffer it lies in
Wells ==
    {[relateid |-> "w1", elevation |-> Some(1000), near |-> {"A", "B"}],
     [relateid |-> "w2", elevation |-> Null, near |-> {"A"}],
     [relateid |-> "w3", elevation |-> Some(1200), near |-> {}]}

WellFiles ==
    UNION {{f \in [1..n -> Wells] : \A i, j \in 1..n : i # j => f[i] # f[j]} :
           n \in 0..MaxWells}

\* a record of the statewide construction table
ConstrRecords ==
    {[relateid |-> r, from_depth |-> f, to_depth |-> t] :
        r \in {"w1", "w2"}, f \in {Null, Some(0), Some(10)}, t \in {Null, Some(45)}}

ConstrTables == UNION {[1..n -> ConstrRecords] : n \in 0..MaxConstr}

\* section 2 (lines 45-59): the tool branch leaves strat_table_boo and
\* const_table_boo unassigned
CwiToolParams == [buffer_distance |-> 500]
CwiHardCoded ==
    [buffer_distance |-> 500, strat_table_boo |-> FALSE, const_table_boo |-> TRUE]

\* line 65, Buffer: one polygon per trace, with the trace's attributes
BufferRows(xsln) == [i \in DOMAIN xsln |-> [et_id |-> xsln[i].id]]

\* line 75, Clip: the wells inside some buffer
ClipRows(wells, buffer) ==
    SelectSeq(wells, LAMBDA w : \E i \in DOMAIN buffer : buffer[i].et_id \in w.near)

\* line 82, SpatialJoin JOIN_ONE_TO_MANY: one row per well and buffer around it
SpatialJoinRows(wells, buffer) ==
    Flatten([i \in DOMAIN wells |->
        LET joined == SelectSeq(buffer, LAMBDA b : b.et_id \in wells[i].near)
        IN  [k \in DOMAIN joined |->
                [relateid |-> wells[i].relateid, elevation |-> wells[i].elevation,
                 Join_Count |-> 1, TARGET_FID |-> i, et_id |-> joined[k].et_id]]])

\* lines 135-143: per row of wwpt, TableSelect of the records with its
\* relate-ID and Append of them to constr_cwi
AppendLoop(wwpt, state_constr_table) ==
    Flatten([i \in DOMAIN wwpt |->
        SelectSeq(state_constr_table, LAMBDA c : c.relateid = wwpt[i].relateid)])

\* line 147, JoinField: the elevation of the first wwpt row with the relate-ID
JoinElevation(rows, wwpt) ==
    [i \in DOMAIN rows |->
        LET m == {k \in DOMAIN wwpt : wwpt[k].relateid = rows[i].relateid}
        IN  [relateid |-> rows[i].relateid, from_depth |-> rows[i].from_depth,
             to_depth |-> rows[i].to_depth,
             elevation |-> IF m = {} THEN Null ELSE wwpt[SetMin(m)].elevation,
             elev_top |-> Null, elev_bot |-> Null]]   \* lines 149-150: AddField

\* (mutant) only the elevation is tested
SkipRowElevationOnly(row) == row.elevation = Null

\* lines 156-161: the three "is None: continue" tests
SkipRow(row) ==
    row.elevation = Null \/ row.from_depth = Null \/ row.to_depth = Null

\* (mutant) the depth added instead of subtracted
elev_bot_added(elevation, to_depth) == Some(elevation[1] + to_depth[1])

\* line 162 and line 163
elev_top(elevation, from_depth) == Some(elevation[1] - from_depth[1])
elev_bot(elevation, to_depth) == Some(elevation[1] - to_depth[1])

\* lines 151-166, the update pass from row i on; a subtraction with None
\* raises TypeError and ends the run
RECURSIVE UpdateCursorLoop(_, _)
UpdateCursorLoop(rows, i) ==
    IF i > Len(rows) THEN [rows |-> rows, exception |-> ""]
    ELSE IF SkipRow(rows[i]) THEN UpdateCursorLoop(rows, i + 1)
    ELSE IF Null \in {rows[i].elevation, rows[i].from_depth, rows[i].to_depth}
    THEN [rows |-> rows, exception |-> "TypeError"]
    ELSE UpdateCursorLoop(
             [rows EXCEPT ![i].elev_top = elev_top(rows[i].elevation, rows[i].from_depth),
                          ![i].elev_bot = elev_bot(rows[i].elevation, rows[i].to_depth)],
             i + 1)

\* Delete: the dataset is gone
DeleteDataset(g, name) == [n \in DOMAIN g \ {name} |-> g[n]]

\* section 3 (lines 62-65)
CwiBuffer ==
    /\ script = "cwi" /\ pc = "s3"
    /\ gdb' = InsertRows(CreateDataset(gdb, "xsln_buffer", <<"Shape", "et_id">>),
                         "xsln_buffer", BufferRows(inputs.xsln))
    /\ pc' = "s4"
    /\ UNCHANGED <<script, mode, inputs, locals, messages>>

\* section 4 (lines 69-75)
CwiClip ==
    /\ script = "cwi" /\ pc = "s4"
    /\ gdb' = InsertRows(CreateDataset(gdb, "wwpt_temp", <<"Shape", "relateid", "elevation">>),
                         "wwpt_temp", ClipRows(inputs.state_wwpt, gdb["xsln_buffer"].rows))
    /\ pc' = "s5"
    /\ UNCHANGED <<script, mode, inputs, locals, messages>>

\* lines 79-82
CwiSpatialJoin ==
    /\ script = "cwi" /\ pc = "s5"
    /\ gdb' = InsertRows(
                  CreateDataset(gdb, "wwpt", <<"Shape", "Join_Count", "TARGET_FID",
                                               "relateid", "elevation", "et_id">>),
                  "wwpt", SpatialJoinRows(gdb["wwpt_temp"].rows, gdb["xsln_buffer"].rows))
    /\ pc' = "strat"
    /\ UNCHANGED <<script, mode, inputs, locals, messages>>

\* try: Delete(name) / except: printit("Unable to delete ..."), for each name
\* in turn; `failed` are the deletes that raise (a missing dataset always does)
TryDeletes(g, names, failed) ==
    [n \in DOMAIN g \ (Range(names) \ failed) |-> g[n]]
UnableToDelete(names, failed) ==
    LET hit == SelectSeq(names, LAMBDA n : n \in failed)
    IN  [i \in DOMAIN hit |-> Message("unable to delete", hit[i])]
DeleteOutcomes(g, names) ==
    {f \in SUBSET Range(names) : Range(names) \ DOMAIN g \subseteq f}

\* lines 97-121: the stratigraphy table, when strat_table_boo is True
CwiStrat ==
    /\ script = "cwi" /\ pc = "strat"
    /\ IF ~Assigned("strat_table_boo")
       THEN /\ locals' = Raise(locals, "NameError") /\ pc' = "error"
            /\ gdb' = gdb
       ELSE /\ locals' = locals /\ pc' = "constr"
            /\ gdb' = IF locals.strat_table_boo
                      THEN LET g1 == InsertRows(
                                   CreateDataset(gdb, "strat_temp", <<"Shape", "relateid">>),
                                   "strat_temp",
                                   ClipRows(inputs.state_strat_points, gdb["xsln_buffer"].rows))
                               rows == SpatialJoinRows(g1["strat_temp"].rows,
                                                       gdb["xsln_buffer"].rows)
                               fields == <<"Shape", "Join_Count", "TARGET_FID",
                                           "relateid", "et_id">>
                           IN  InsertRows(CreateDataset(
                                   InsertRows(CreateDataset(g1, "strat_temp2", fields),
                                              "strat_temp2", rows),
                                   "strat_cwi", fields), "strat_cwi", rows)
                      ELSE gdb
    /\ UNCHANGED <<script, mode, inputs, messages>>

\* lines 124-143: the empty construction table and the records of every well
CwiConstrAppend ==
    /\ script = "cwi" /\ pc = "constr"
    /\ IF ~Assigned("const_table_boo")
       THEN locals' = Raise(locals, "NameError") /\ pc' = "error" /\ gdb' = gdb
       ELSE IF ~locals.const_table_boo
       THEN locals' = locals /\ pc' = "delete" /\ gdb' = gdb
       ELSE /\ locals' = locals /\ pc' = "constr_join"
            /\ LET fields == <<"relateid", "from_depth", "to_depth">>
                   g1 == CreateDataset(gdb, "constr_cwi", fields)
                   g2 == IF gdb["wwpt"].rows = <<>> THEN g1
                         ELSE InsertRows(CreateDataset(g1, "constr_cwi_temp", fields),
                                  "constr_cwi_temp",
                                  SelectSeq(inputs.state_constr_table, LAMBDA c :
                                      c.relateid =
                                          gdb["wwpt"].rows[Len(gdb["wwpt"].rows)].relateid))
               IN  gdb' = InsertRows(g2, "constr_cwi",
                              AppendLoop(gdb["wwpt"].rows, inputs.state_constr_table))
    /\ UNCHANGED <<script, mode, inputs, messages>>

\* lines 147-150: the elevation joined from wwpt, and the two new fields
CwiConstrJoin ==
    /\ script = "cwi" /\ pc = "constr_join"
    /\ gdb' = [gdb EXCEPT !["constr_cwi"] =
                  [fields |-> @.fields \o <<"elevation", "elev_top", "elev_bot">>,
                   rows |-> JoinElevation(@.rows, gdb["wwpt"].rows)]]
    /\ pc' = "constr_update"
    /\ UNCHANGED <<script, mode, inputs, locals, messages>>

\* lines 151-166: the update pass
CwiConstrUpdate ==
    /\ script = "cwi" /\ pc = "constr_update"
    /\ LET r == UpdateCursorLoop(gdb["constr_cwi"].rows, 1)
       IN  /\ gdb' = [gdb EXCEPT !["constr_cwi"].rows = r.rows]
           /\ IF r.exception = ""
              THEN locals' = locals /\ pc' = "delete"
              ELSE locals' = Raise(locals, r.exception) /\ pc' = "error"
    /\ UNCHANGED <<script, mode, inputs, messages>>

\* lines 169-183: the temporary datasets
CwiTemporaries ==
    <<"wwpt_temp">> \o
    (IF locals.strat_table_boo THEN <<"strat_temp", "strat_temp2">> ELSE <<>>) \o
    (IF locals.const_table_boo THEN <<"constr_cwi_temp">> ELSE <<>>)

CwiDelete ==
    /\ script = "cwi" /\ pc = "delete"
    /\ \E failed \in DeleteOutcomes(gdb, CwiTemporaries) :
          /\ gdb' = TryDeletes(gdb, CwiTemporaries, failed)
          /\ messages' = messages \o UnableToDelete(CwiTemporaries, failed)
    /\ pc' = "end"
    /\ UNCHANGED <<script, mode, inputs, locals>>

\* lines 186-188
CwiEnd ==
    /\ script = "cwi" /\ pc = "end"
    /\ messages' = Append(messages, ToolCompleted)
    /\ pc' = "done"
    /\ UNCHANGED <<script, mode, inputs, locals, gdb>>

InitCwi ==
    /\ script = "cwi"
    /\ \/ mode = "test" /\ locals = CwiHardCoded
       \/ mode = "tool" /\ locals = CwiToolParams
    /\ inputs \in {[xsln |-> <<TraceA, TraceB>>, state_wwpt |-> w,
                    state_strat_points |-> <<>>, state_constr_table |-> c] :
                       w \in WellFiles, c \in ConstrTables}
    /\ pc = "s3"
    /\ gdb = NoDatasets
    /\ messages = <<>>

NextCwi ==
    \/ CwiBuffer \/ CwiClip \/ CwiSpatialJoin \/ CwiStrat \/ CwiConstrAppend
    \/ CwiConstrJoin \/ CwiConstrUpdate \/ CwiDelete \/ CwiEnd

SpecCwi == InitCwi /\ [][NextCwi]_vars

-----------------------------------------------------------------------------
(* Well construction table: the claims                                     *)

UpdatePassDone == script = "cwi" /\ pc \in {"delete", "end", "done"}

Missing(row) == Null \in {row.elevation, row.from_depth, row.to_depth}

\* C8: after the update pass, every row of the construction table with both
\* elev_top and elev_bot defined has elev_top - elev_bot = to_depth -
\* from_depth, elev_top = elevation - from_depth and elev_bot = elevation -
\* to_depth.
C8_IntervalThickness ==
    UpdatePassDone =>
        \A i \in DOMAIN RowsOf("constr_cwi") :
            LET row == RowsOf("constr_cwi")[i]
            IN  (row.elev_top # Null /\ row.elev_bot # Null) =>
                    /\ ~Missing(row)
                    /\ row.elev_top[1] - row.elev_bot[1]
                           = row.to_depth[1] - row.from_depth[1]
                    /\ row.elev_top[1] = row.elevation[1] - row.from_depth[1]
                    /\ row.elev_bot[1] = row.elevation[1] - row.to_depth[1]

C8_Witness ==
    /\ UpdatePassDone
    /\ \E i \in DOMAIN RowsOf("constr_cwi") :
          LET row == RowsOf("constr_cwi")[i]
          IN  /\ row.elev_top # Null /\ row.elev_bot # Null
              /\ row.from_depth # Some(0)

\* C9: a row of the update pass with elevation, from_depth or to_depth missing
\* keeps both elev_top and elev_bot null, raises no error, and the rows after
\* it are still derived.
C9_MissingRowsSkipped ==
    script = "cwi" =>
        /\ ~(Assigned("exception") /\ locals.exception = "TypeError")
        /\ UpdatePassDone =>
              \A i \in DOMAIN RowsOf("constr_cwi") :
                  LET row == RowsOf("constr_cwi")[i]
                  IN  IF Missing(row)
                      THEN row.elev_top = Null /\ row.elev_bot = Null
                      ELSE row.elev_top # Null /\ row.elev_bot # Null

C9_Witness ==
    /\ script = "cwi" /\ pc = "done"
    /\ \E i, j \in DOMAIN RowsOf("constr_cwi") :
          /\ i < j
          /\ Missing(RowsOf("constr_cwi")[i])
          /\ RowsOf("constr_cwi")[i].elevation # Null
          /\ RowsOf("constr_cwi")[j].elev_top # Null

-----------------------------------------------------------------------------
(* The GIS library, as far as the three profile scripts use it             *)

MaxRasters == 2      \* a run drapes at most MaxRasters raster surfaces
MaxFeatures == 2     \* a polygon / line / point input holds at most MaxFeatures

\* the trace file as a table: ListFields and the row values
XslnFields(id_field) == <<"OBJECTID", "Shape", id_field, "county", "Shape_Length">>
XslnRows(file, id_field) ==
    [i \in DOMAIN file |->
        ("OBJECTID" :> i) @@ ("Shape" :> file[i].verts) @@ (id_field :> file[i].id) @@
        ("county" :> file[i].county) @@
        ("Shape_Length" :> file[i].verts[Len(file[i].verts)].M)]
XslnTable(file, id_field) ==
    [fields |-> XslnFields(id_field), rows |-> XslnRows(file, id_field)]

\* a map-view point on a trace: the segment it lies on and its X coordinate.
\* Polyline.measureOnLine: its arc-length position from the first vertex
measureOnLine(trace, pt) ==
    LET v == trace.verts
        k == pt.seg
    IN  RatAdd(ToRat(v[k].M),
               Rat((v[k + 1].M - v[k].M) * (pt.X - v[k].X), v[k + 1].X - v[k].X))

\* the points a geoprocessing tool puts on a trace: its vertices and the
\* middle of each segment, in the direction of the trace
TraceVertices(trace) ==
    LET v == trace.verts
    IN  Flatten([k \in 1..(Len(v) - 1) |->
                    <<[seg |-> k, X |-> v[k].X],
                      [seg |-> k, X |-> (v[k].X + v[k + 1].X) \div 2]>>])
        \o <<[seg |-> Len(v) - 1, X |-> v[Len(v)].X]>>

\* the maximal runs of two or more consecutive kept vertices
RECURSIVE Runs(_, _, _, _)
Runs(verts, keep, i, current) ==
    LET closed == IF Len(current) >= 2 THEN <<current>> ELSE <<>>
    IN  IF i > Len(verts) THEN closed
        ELSE IF keep[i] THEN Runs(verts, keep, i + 1, Append(current, verts[i]))
        ELSE closed \o Runs(verts, keep, i + 1, <<>>)

\* the raster surfaces: elevation in feet over X, and where there is no data
Rasters ==
    {[name |-> "topo_grid_surface", base |-> 1000, nodata |-> {}],
     [name |-> "topo_grid_bedrock", base |-> 900, nodata |-> {1300}]}
RasterNamed(name) == CHOOSE r \in Rasters : r.name = name
RasterZ(raster, X) == raster.base + (X \div 100)

\* ddd.InterpolateShape: per trace one 3D line with the trace's attributes,
\* in several parts where the raster has a gap
InterpolateShape(raster, file, id_field) ==
    Flatten([i \in DOMAIN file |->
        LET verts == TraceVertices(file[i])
            verts3d == [k \in DOMAIN verts |->
                           [seg |-> verts[k].seg, X |-> verts[k].X,
                            Z |-> RasterZ(raster, verts[k].X)]]
            parts == Runs(verts3d, [k \in DOMAIN verts |-> verts[k].X \notin raster.nodata],
                          1, <<>>)
        IN  IF parts = <<>> THEN <<>>
            ELSE <<("Shape" :> parts) @@ (id_field :> file[i].id) @@
                   ("county" :> file[i].county)>>])

\* one row per multipart row, with the first part only
MultipartFirstPart(rows) ==
    [i \in DOMAIN rows |->
        ("Shape" :> rows[i]["Shape"][1]) @@ ("ORIG_FID" :> i) @@ rows[i]]

\* MultipartToSinglepart: one row per part, with the attributes of its row
MultipartToSinglepart(rows) ==
    Flatten([i \in DOMAIN rows |->
        [k \in DOMAIN rows[i]["Shape"] |->
            ("Shape" :> rows[i]["Shape"][k]) @@ ("ORIG_FID" :> i) @@ rows[i]]])

\* OBJECTID: the position of the row in its dataset
Numbered(rows) == [i \in DOMAIN rows |-> ("OBJECTID" :> i) @@ rows[i]]

\* (mutant) the joined values written over the input's fields of the same name
JoinFieldOverwriting(in_data, in_field, join_table, join_field, fields) ==
    [fields |-> in_data.fields \o
                SelectSeq(fields, LAMBDA f : f \notin Range(in_data.fields)),
     rows |-> [i \in DOMAIN in_data.rows |->
         LET m == {k \in DOMAIN join_table.rows :
                      join_table.rows[k][join_field] = in_data.rows[i][in_field]}
         IN  [n \in Range(fields) |->
                 IF m = {} THEN Null ELSE join_table.rows[SetMin(m)][n]]
             @@ in_data.rows[i]]]

\* JoinField with a field list: per row the values of the first row of the
\* join table with the same key (null without one); a joined field whose name
\* the input already has is added under the name with "_1" appended
JoinedName(fields, f) == IF f \in Range(fields) THEN f \o "_1" ELSE f
JoinField(in_data, in_field, join_table, join_field, fields) ==
    LET names == [j \in DOMAIN fields |-> JoinedName(in_data.fields, fields[j])]
    IN  [fields |-> in_data.fields \o names,
         rows |-> [i \in DOMAIN in_data.rows |->
             LET m == {k \in DOMAIN join_table.rows :
                          join_table.rows[k][join_field] = in_data.rows[i][in_field]}
             IN  [n \in Range(names) |->
                     IF m = {} THEN Null
                     ELSE join_table.rows[SetMin(m)]
                              [fields[CHOOSE j \in DOMAIN fields : names[j] = n]]]
                 @@ in_data.rows[i]]]

\* DeleteField
DeleteField(data, field) ==
    [fields |-> SelectSeq(data.fields, LAMBDA f : f # field),
     rows |-> [i \in DOMAIN data.rows |->
                  [n \in DOMAIN data.rows[i] \ {field} |-> data.rows[i][n]]]]

\* "for name in names: if name in list: list.remove(name)"
RECURSIVE RemoveNames(_, _)
RemoveNames(list, names) ==
    IF names = <<>> THEN list
    ELSE RemoveNames(IF Head(names) \in Range(list) THEN ListRemove(list, Head(names))
                     ELSE list,
                     Tail(names))

\* the parameters of a profile script in the tool branch: the exaggeration is
\* int(GetParameterAsText(i)), any integer; the trace-ID field is a name
ProfileToolParams ==
    {[vertical_exaggeration |-> v, id_field |-> "et_id"] : v \in (-MaxVE)..MaxVE}
    \cup {[vertical_exaggeration |-> 50, id_field |-> f] : f \in IdFieldNames}

-----------------------------------------------------------------------------
(* RasterProfiles.py                                                       *)

RasterLists ==
    UNION {{f \in [1..n -> {r.name : r \in Rasters}] :
               \A i, j \in 1..n : i # j => f[i] # f[j]} : n \in 1..MaxRasters}

\* section 2, else branch
RasterHardCoded ==
    [rasters_input |-> <<"topo_grid_surface", "topo_grid_bedrock">>,
     xsln_etid_field |-> "et_id", vertical_exaggeration |-> 50]

\* section 2, tool branch
RasterToolParams ==
    {[rasters_input |-> r, xsln_etid_field |-> p.id_field,
      vertical_exaggeration |-> p.vertical_exaggeration] :
        r \in RasterLists, p \in ProfileToolParams}

\* line 87
fields_no_join(xsln_etid_field) ==
    <<xsln_etid_field, "OBJECTID", "Shape", "Join_Count", "TARGET_FID", "Shape_Length">>

\* the dataset names of lines 98, 102, 110, 116 and 137
profiles_3d_multi(name) == name \o "_profiles3d_multi"
profiles_3d(name) == name \o "_profiles3d"
profiles_3d_byxsec(name) == name \o "profiles3d_byxsec"
profiles_2d(name, vertical_exaggeration) ==
    name \o "_profiles2d" \o "_" \o ToString(vertical_exaggeration) \o "x"
profile_by_xs_file(name, xsln_etid_field, et_id) ==
    profiles_3d_byxsec(name) \o "/" \o xsln_etid_field \o "_" \o et_id

\* (mutant) the exaggeration multiplied in
RasterX2dMultiplied(x_2d_meters, vertical_exaggeration) ==
    LET x_2d_feet == RatDiv(x_2d_meters, FootInMetres)
    IN  RatMul(x_2d_feet, ToRat(vertical_exaggeration))

\* lines 147-149
RasterX2d(x_2d_meters, vertical_exaggeration) ==
    LET x_2d_feet == RatDiv(x_2d_meters, FootInMetres)
    IN  RatDiv(x_2d_feet, ToRat(vertical_exaggeration))

\* lines 140-157: the 2D lines of the 3D profiles of one trace
Raster2dRows(trace, profile, l) ==
    [k \in DOMAIN profile |->
        ("Shape" :> [n \in DOMAIN profile[k]["Shape"] |->
                        LET vertex == profile[k]["Shape"][n]
                            x_2d == RasterX2d(measureOnLine(trace, vertex),
                                              l.vertical_exaggeration)
                            y_2d == vertex.Z
                        IN  Point(x_2d, y_2d)])
        @@ (l.xsln_etid_field :> profile[k][l.xsln_etid_field])]

\* line 138, Select: the rows of the 3D profiles with the trace's ID
SelectByXs(rows, xsln_etid_field, et_id) ==
    SelectSeq(rows, LAMBDA r : r[xsln_etid_field] = et_id)

\* Delete of a feature dataset: it goes with the feature classes in it
DeleteFeatureDataset(g, name) ==
    [n \in {m \in DOMAIN g : m # name /\ ~("within" \in DOMAIN g[m] /\ g[m].within = name)}
        |-> g[n]]

\* the raster of the current pass of "for raster in rasters_list"
RasterName == locals.rasters_list[locals.raster_iter]

\* sections 3-5 with the spatial reference check made fatal: an Unknown
\* spatial reference ends the run after the message
RasterSection3Fatal ==
    /\ script = "raster" /\ pc = "s3"
    /\ IF inputs.spatialref = "Unknown"
       THEN /\ locals' = Raise(locals, "SystemExit")
            /\ messages' = Append(messages, Message("error", "unknown spatial reference"))
            /\ pc' = "error"
       ELSE /\ locals' = Assign(locals,
                  [rasters_list |-> locals.rasters_input,
                   fields_2d |-> <<locals.xsln_etid_field>>,
                   xsln_field_names |-> RemoveNames(XslnFields(locals.xsln_etid_field),
                                                    fields_no_join(locals.xsln_etid_field)),
                   raster_iter |-> 1])
            /\ messages' = messages
            /\ pc' = "s6_3d"
    /\ UNCHANGED <<script, mode, inputs, gdb>>

\* sections 3-5 (lines 61-91): the raster list, the spatial reference check,
\* the fields to write and to join
RasterSection3 ==
    /\ script = "raster" /\ pc = "s3"
    /\ locals' = Assign(locals,
          [rasters_list |-> locals.rasters_input,
           fields_2d |-> <<locals.xsln_etid_field>>,
           xsln_field_names |-> RemoveNames(XslnFields(locals.xsln_etid_field),
                                            fields_no_join(locals.xsln_etid_field)),
           raster_iter |-> 1])
    /\ messages' = IF inputs.spatialref = "Unknown"
                   THEN Append(messages, Message("error", "unknown spatial reference"))
                   ELSE messages
    /\ pc' = "s6_3d"
    /\ UNCHANGED <<script, mode, inputs, gdb>>

\* lines 94-121: the 3D profiles of one raster and the empty 2D file.  The
\* Delete of line 106 is outside any try: its failure ends the run.
Raster3dProfiles ==
    /\ script = "raster" /\ pc = "s6_3d"
    /\ LET name == RasterName
           multi == InterpolateShape(RasterNamed(name), inputs.xsln_file_orig,
                                     locals.xsln_etid_field)
           g1 == InsertRows(CreateDataset(gdb, profiles_3d_multi(name),
                                          XslnFields(locals.xsln_etid_field)),
                            profiles_3d_multi(name), multi)
           g2 == InsertRows(CreateDataset(g1, profiles_3d(name),
                                XslnFields(locals.xsln_etid_field) \o <<"ORIG_FID">>),
                            profiles_3d(name), MultipartToSinglepart(multi))
           g3 == CreateDataset(DeleteDataset(g2, profiles_3d_multi(name)),
                               profiles_3d_byxsec(name), <<>>)
       IN  \/ /\ gdb' = CreateDataset(g3, profiles_2d(name, locals.vertical_exaggeration),
                                      <<"OBJECTID", "Shape">> \o locals.fields_2d)
              /\ locals' = locals /\ pc' = "s6_2d"
           \/ /\ gdb' = g2
              /\ locals' = Raise(locals, "ExecuteError") /\ pc' = "error"
    /\ UNCHANGED <<script, mode, inputs, messages>>

\* lines 124-157: per trace, its 3D profiles selected into the feature dataset
\* and converted.  Dividing by an exaggeration of 0 raises at the first vertex.
Raster2dGeometry ==
    /\ script = "raster" /\ pc = "s6_2d"
    /\ LET name == RasterName
           file == inputs.xsln_file_orig
           idf == locals.xsln_etid_field
           rows3d == gdb[profiles_3d(name)].rows
           sel(i) == SelectByXs(rows3d, idf, file[i].id)
           hit == {i \in DOMAIN file : sel(i) # <<>>}
           last == IF locals.vertical_exaggeration = 0 /\ hit # {}
                   THEN SetMin(hit) ELSE Len(file)
           selected == [n \in {profile_by_xs_file(name, idf, file[i].id) : i \in 1..last} |->
                           LET i == CHOOSE j \in 1..last :
                                        n = profile_by_xs_file(name, idf, file[j].id)
                           IN  [fields |-> gdb[profiles_3d(name)].fields, rows |-> sel(i),
                                within |-> profiles_3d_byxsec(name)]]
       IN  IF locals.vertical_exaggeration = 0 /\ hit # {}
           THEN /\ gdb' = selected @@ gdb
                /\ locals' = Raise(locals, "ZeroDivisionError") /\ pc' = "error"
           ELSE /\ gdb' = InsertRows(selected @@ gdb,
                              profiles_2d(name, locals.vertical_exaggeration),
                              Flatten([i \in DOMAIN file |-> Raster2dRows(file[i], sel(i), locals)]))
                /\ locals' = locals /\ pc' = "s6_join"
    /\ UNCHANGED <<script, mode, inputs, messages>>

\* lines 158-166: the feature dataset deleted (a failure is reported and
\* passed over), the trace's other fields joined; then the next raster
RasterJoin ==
    /\ script = "raster" /\ pc = "s6_join"
    /\ LET name == RasterName
           out == profiles_2d(name, locals.vertical_exaggeration)
       IN  \E deleted \in BOOLEAN :
              /\ gdb' = [(IF deleted THEN DeleteFeatureDataset(gdb, profiles_3d_byxsec(name))
                          ELSE gdb)
                         EXCEPT ![out] = JoinField(gdb[out], locals.xsln_etid_field,
                                    XslnTable(inputs.xsln_file_orig, locals.xsln_etid_field),
                                    locals.xsln_etid_field, locals.xsln_field_names)]
              /\ messages' = IF deleted THEN messages
                             ELSE Append(messages, Message("unable to delete",
                                                           profiles_3d_byxsec(name)))
    /\ IF locals.raster_iter < Len(locals.rasters_list)
       THEN locals' = [locals EXCEPT !.raster_iter = @ + 1] /\ pc' = "s6_3d"
       ELSE locals' = locals /\ pc' = "s7"
    /\ UNCHANGED <<script, mode, inputs>>

\* section 7 (lines 170-172)
RasterEnd ==
    /\ script = "raster" /\ pc = "s7"
    /\ messages' = Append(messages, ToolCompleted)
    /\ pc' = "done"
    /\ UNCHANGED <<script, mode, inputs, locals, gdb>>

SpatialRefs == {"NAD_1983_UTM_Zone_15N", "Unknown"}

InitRaster ==
    /\ script = "raster"
    /\ \/ mode = "test" /\ locals = RasterHardCoded
       \/ mode = "tool" /\ locals \in RasterToolParams
    /\ inputs \in {[xsln_file_orig |-> f, spatialref |-> s] :
                      f \in XslnFiles, s \in SpatialRefs}
    /\ pc = "s3"
    /\ gdb = NoDatasets
    /\ messages = <<>>

NextRaster ==
    \/ RasterSection3 \/ Raster3dProfiles \/ Raster2dGeometry \/ RasterJoin \/ RasterEnd

SpecRaster == InitRaster /\ [][NextRaster]_vars

-----------------------------------------------------------------------------
(* Polygon_Profile_Intersect.py                                            *)

\* a map polygon: its attribute and the X range it covers
PolygonFeatures ==
    {[unit |-> "Qs", XMin |-> 0, XMax |-> 1000],
     [unit |-> "Qt", XMin |-> 1000, XMax |-> 3000],
     [unit |-> "Qa", XMin |-> 700, XMax |-> 1500]}

PolygonFiles ==
    UNION {{f \in [1..n -> PolygonFeatures] : \A i, j \in 1..n : i # j => f[i] # f[j]} :
           n \in 0..MaxFeatures}

\* the polygon feature class: its fields and rows; `extra` is one more text
\* field the file may carry ("" for none)
PolygonTable(file, extra) ==
    [fields |-> <<"OBJECTID", "Shape", "unit">> \o
                (IF extra = "" THEN <<>> ELSE <<extra>>) \o
                <<"Shape_Length", "Shape_Area">>,
     rows |-> [i \in DOMAIN file |->
                  ("OBJECTID" :> i) @@
                  ("Shape" :> [XMin |-> file[i].XMin, XMax |-> file[i].XMax]) @@
                  ("unit" :> file[i].unit) @@
                  (IF extra = "" THEN <<>> ELSE (extra :> "old"))]]

PolygonInputs ==
    {PolygonTable(f, "") : f \in PolygonFiles} \cup
    {PolygonTable(<<CHOOSE p \in PolygonFeatures : p.unit = "Qs",
                    CHOOSE p \in PolygonFeatures : p.unit = "Qt">>, e) :
        e \in IdFieldNames \cup {"unique_id"}}

\* the 3D profiles the raster tool makes of a trace file (the surface with a
\* gap); has_z = FALSE: a 2D line file given in their place, Z is None
Profiles3dTable(file, id_field, has_z) ==
    [hasZ |-> has_z,
     fields |-> XslnFields(id_field) \o <<"ORIG_FID">>,
     rows |-> LET rows == MultipartToSinglepart(
                      InterpolateShape(RasterNamed("topo_grid_bedrock"), file, id_field))
              IN  [i \in DOMAIN rows |->
                      ("Shape" :> [k \in DOMAIN rows[i]["Shape"] |->
                                      [rows[i]["Shape"][k] EXCEPT
                                          !.Z = IF has_z THEN Some(@) ELSE Null]])
                      @@ rows[i]]]

\* section 2, else branch
PolygonHardCoded == [xsec_id_field |-> "et_id", vertical_exaggeration |-> 50]

\* section 2, tool branch
PolygonToolParams ==
    {[xsec_id_field |-> p.id_field, vertical_exaggeration |-> p.vertical_exaggeration] :
        p \in ProfileToolParams}

\* os.path.basename(polygons_orig)
input_name == "sgpg"

\* analysis.Intersect of lines with polygons, output LINE, NO_FID: per line and
\* polygon the parts of the line inside the polygon, with the attributes of
\* both (a polygon field whose name the line has gets "_1" appended)
IntersectLineFields(line_fields, polygon_fields) ==
    LET attrs(fields) == SelectSeq(fields, LAMBDA f :
                             f \notin {"OBJECTID", "Shape", "Shape_Length", "Shape_Area"})
        mine == attrs(line_fields)
        theirs == attrs(polygon_fields)
    IN  <<"OBJECTID", "Shape">> \o mine \o
        [j \in DOMAIN theirs |-> JoinedName(mine, theirs[j])] \o <<"Shape_Length">>

IntersectLineRows(lines, polygons) ==
    LET mine == SelectSeq(lines.fields, LAMBDA f :
                    f \notin {"OBJECTID", "Shape", "Shape_Length", "Shape_Area"})
        theirs == SelectSeq(polygons.fields, LAMBDA f :
                    f \notin {"OBJECTID", "Shape", "Shape_Length", "Shape_Area"})
    IN  Flatten([i \in DOMAIN lines.rows |->
          Flatten([p \in DOMAIN polygons.rows |->
            LET verts == lines.rows[i]["Shape"]
                inside == [k \in DOMAIN verts |->
                              /\ polygons.rows[p]["Shape"].XMin <= verts[k].X
                              /\ verts[k].X <= polygons.rows[p]["Shape"].XMax]
                parts == Runs(verts, inside, 1, <<>>)
            IN  IF parts = <<>> THEN <<>>
                ELSE <<("Shape" :> parts) @@
                       [n \in Range(mine) |-> lines.rows[i][n]] @@
                       [n \in {JoinedName(mine, theirs[j]) : j \in DOMAIN theirs} |->
                           polygons.rows[p][theirs[CHOOSE j \in DOMAIN theirs :
                                                       JoinedName(mine, theirs[j]) = n]]]>>])])

\* the key field filled with one constant instead of the object identifier
AddUniqueIdConstant(data) ==
    [fields |-> IF "unique_id" \in Range(data.fields) THEN data.fields
                ELSE Append(data.fields, "unique_id"),
     rows |-> [i \in DOMAIN data.rows |-> ("unique_id" :> 1) @@ data.rows[i]]]

\* lines 93-103: the unique_id field, filled from OBJECTID or FID
\* lines 92-95: AddField in try/except; it fails when the field is there
UnableToAddField(data) ==
    IF "unique_id" \in Range(data.fields)
    THEN <<Message("unable to add field", "unique_id")>> ELSE <<>>

AddUniqueId(data) ==
    LET fields == IF "unique_id" \in Range(data.fields) THEN data.fields
                  ELSE Append(data.fields, "unique_id")
        key == IF "OBJECTID" \in Range(data.fields) THEN "OBJECTID"
               ELSE IF "FID" \in Range(data.fields) THEN "FID" ELSE ""
    IN  [fields |-> fields,
         rows |-> [i \in DOMAIN data.rows |->
                      ("unique_id" :> IF key = "" THEN Null ELSE data.rows[i][key])
                      @@ data.rows[i]]]

\* line 161
PolygonX2d(x_2d_raw, vertical_exaggeration) ==
    RatDiv(RatDiv(x_2d_raw, FootInMetres), ToRat(vertical_exaggeration))

\* lines 147-171: the 2D lines of the intersect lines of one trace
PolygonLineRows(trace, temp_rows, l) ==
    LET mine == SelectSeq(temp_rows, LAMBDA r : r[l.xsec_id_field] = trace.id)
    IN  [k \in DOMAIN mine |->
            ("Shape" :> [n \in DOMAIN mine[k]["Shape"] |->
                            LET vertex == mine[k]["Shape"][n]
                                x_2d_raw == measureOnLine(trace, vertex)
                                x_2d == PolygonX2d(x_2d_raw, l.vertical_exaggeration)
                                y_2d == vertex.Z
                            IN  Point(x_2d, y_2d)])
            @@ (l.xsec_id_field :> trace.id) @@ ("unique_id" :> mine[k]["unique_id"])]

\* the point rows with the start point of every 2D line only
PolygonPointRowsStartOnly(line_rows, xsec_id_field) ==
    [i \in DOMAIN line_rows |->
        ("Shape" :> line_rows[i]["Shape"][1]) @@
        (xsec_id_field :> line_rows[i][xsec_id_field]) @@
        ("unique_id" :> line_rows[i]["unique_id"])]

\* lines 198-207: the first and the last point of every 2D line
PolygonPointRows(line_rows, xsec_id_field) ==
    Flatten([i \in DOMAIN line_rows |->
        LET geom == line_rows[i]["Shape"]
            xsec == line_rows[i][xsec_id_field]
            unique_id == line_rows[i]["unique_id"]
        IN  <<("Shape" :> geom[1]) @@ (xsec_id_field :> xsec) @@ ("unique_id" :> unique_id),
              ("Shape" :> geom[Len(geom)]) @@ (xsec_id_field :> xsec) @@
              ("unique_id" :> unique_id)>>])

\* lines 213-237 (and lines 244-268 of Vertical_Lines_Intersect.py): the
\* fields to join
redundant_fields ==
    <<"unique_id", "Shape", "OBJECTID", "FID", "Shape_Length", "Shape_Area",
      "TARGET_FID", "Join_Count", "et_id">>
join_fields(in_fc_fields_all) == RemoveNames(in_fc_fields_all, redundant_fields)

\* (mutant) the join field is added to the polygon layer itself, not to a copy
PolygonSection3InPlace ==
    /\ script = "polygon" /\ pc = "s3"
    /\ messages' = messages \o
                   (IF inputs.profiles_3d.hasZ = FALSE
                    THEN <<Message("error", "profiles do not have z")>> ELSE <<>>) \o
                   UnableToAddField(inputs.polygons_orig)
    /\ locals' = Assign(locals, [polygons |-> input_name \o "_temp",
                                 unique_id_field |-> "unique_id"])
    /\ inputs' = [inputs EXCEPT !.polygons_orig = AddUniqueId(@)]
    /\ gdb' = (input_name \o "_temp" :> AddUniqueId(inputs.polygons_orig)) @@ gdb
    /\ pc' = "s5"
    /\ UNCHANGED <<script, mode>>

\* section 3 (lines 77-79) and section 4 (lines 85-103): the check for 3D
\* profiles, which reports and goes on; the temporary copy of the polygons
PolygonSection3 ==
    /\ script = "polygon" /\ pc = "s3"
    /\ messages' = messages \o
                   (IF inputs.profiles_3d.hasZ = FALSE
                    THEN <<Message("error", "profiles do not have z")>> ELSE <<>>) \o
                   UnableToAddField(inputs.polygons_orig)
    /\ locals' = Assign(locals, [polygons |-> input_name \o "_temp",
                                 unique_id_field |-> "unique_id"])
    /\ gdb' = (input_name \o "_temp" :> AddUniqueId(inputs.polygons_orig)) @@ gdb
    /\ pc' = "s5"
    /\ UNCHANGED <<script, mode, inputs>>

\* section 5 (lines 108-121): the intersect lines, multipart and single part
PolygonSection5 ==
    /\ script = "polygon" /\ pc = "s5"
    /\ LET output_name == input_name \o "_intersect_lines_" \o
                          ToString(locals.vertical_exaggeration) \o "x"
           fields == IntersectLineFields(inputs.profiles_3d.fields,
                                         gdb[locals.polygons].fields)
           multi == IntersectLineRows(inputs.profiles_3d, gdb[locals.polygons])
       IN  /\ locals' = Assign(locals,
                  [output_line_fc |-> output_name,
                   output_line_fc_temp_multi |-> output_name \o "_temp_line_3d_multi",
                   output_line_fc_temp |-> output_name \o "_temp_line_3d"])
           /\ gdb' = (output_name \o "_temp_line_3d_multi" :>
                          [fields |-> fields, rows |-> multi]) @@
                     (output_name \o "_temp_line_3d" :>
                          [fields |-> Append(fields, "ORIG_FID"),
                           rows |-> MultipartToSinglepart(multi)]) @@ gdb
    /\ pc' = "s6"
    /\ UNCHANGED <<script, mode, inputs, messages>>

\* section 6 (lines 125-128): the empty 2D line file
PolygonSection6 ==
    /\ script = "polygon" /\ pc = "s6"
    /\ gdb' = CreateDataset(gdb, locals.output_line_fc,
                  <<"OBJECTID", "Shape", locals.xsec_id_field, locals.unique_id_field>>)
    /\ pc' = "s7"
    /\ UNCHANGED <<script, mode, inputs, locals, messages>>

\* section 7 (lines 132-171): the 2D lines, trace by trace
PolygonSection7 ==
    /\ script = "polygon" /\ pc = "s7"
    /\ LET temp_rows == gdb[locals.output_line_fc_temp].rows
           rows == Flatten([i \in DOMAIN inputs.xsln_file |->
                       PolygonLineRows(inputs.xsln_file[i], temp_rows, locals)])
       IN  IF locals.vertical_exaggeration = 0 /\
              (\E i \in DOMAIN inputs.xsln_file : \E k \in DOMAIN temp_rows :
                   temp_rows[k][locals.xsec_id_field] = inputs.xsln_file[i].id)
           THEN gdb' = gdb /\ locals' = Raise(locals, "ZeroDivisionError") /\ pc' = "error"
           ELSE /\ gdb' = InsertRows(gdb, locals.output_line_fc, rows)
                /\ locals' = locals /\ pc' = "s8"
    /\ UNCHANGED <<script, mode, inputs, messages>>

\* section 8 (lines 175-179): the temporary line files
PolygonSection8 ==
    /\ script = "polygon" /\ pc = "s8"
    /\ LET names == <<locals.output_line_fc_temp_multi, locals.output_line_fc_temp>>
       IN  \E failed \in DeleteOutcomes(gdb, names) :
              /\ gdb' = TryDeletes(gdb, names, failed)
              /\ messages' = messages \o UnableToDelete(names, failed)
    /\ pc' = "s9"
    /\ UNCHANGED <<script, mode, inputs, locals>>

\* section 9 (lines 182-191): the empty point file
PolygonSection9 ==
    /\ script = "polygon" /\ pc = "s9"
    /\ LET output_name == input_name \o "_intersect_points_" \o
                          ToString(locals.vertical_exaggeration) \o "x"
       IN  /\ locals' = Assign(locals, [output_point_fc |-> output_name])
           /\ gdb' = CreateDataset(gdb, output_name,
                         <<"OBJECTID", "Shape", locals.xsec_id_field, locals.unique_id_field>>)
    /\ pc' = "s10"
    /\ UNCHANGED <<script, mode, inputs, messages>>

\* section 10 (lines 195-207): the end points of the 2D lines
PolygonSection10 ==
    /\ script = "polygon" /\ pc = "s10"
    /\ gdb' = InsertRows(gdb, locals.output_point_fc,
                  PolygonPointRows(gdb[locals.output_line_fc].rows, locals.xsec_id_field))
    /\ pc' = "s11"
    /\ UNCHANGED <<script, mode, inputs, locals, messages>>

\* section 11 (lines 211-240): the polygon attributes joined on unique_id
PolygonSection11 ==
    /\ script = "polygon" /\ pc = "s11"
    /\ LET fields == join_fields(gdb[locals.polygons].fields)
       IN  /\ locals' = Assign(locals, [join_fields |-> fields])
           /\ gdb' = [gdb EXCEPT
                  ![locals.output_line_fc] =
                      JoinField(@, locals.unique_id_field, gdb[locals.polygons],
                                locals.unique_id_field, fields),
                  ![locals.output_point_fc] =
                      JoinField(@, locals.unique_id_field, gdb[locals.polygons],
                                locals.unique_id_field, fields)]
    /\ pc' = "s12"
    /\ UNCHANGED <<script, mode, inputs, messages>>

\* section 12 (lines 244-249): the temporary polygons and the unique_id field
\* of both outputs, each in its own try, and section 13 (lines 252-254)
PolygonSection12 ==
    /\ script = "polygon" /\ pc = "s12"
    /\ \E deleted, line_field, point_field \in BOOLEAN :
          /\ gdb' = LET g1 == IF deleted THEN DeleteDataset(gdb, locals.polygons) ELSE gdb
                        g2 == IF line_field
                              THEN [g1 EXCEPT ![locals.output_line_fc] =
                                       DeleteField(@, locals.unique_id_field)]
                              ELSE g1
                    IN  IF point_field
                        THEN [g2 EXCEPT ![locals.output_point_fc] =
                                 DeleteField(@, locals.unique_id_field)]
                        ELSE g2
          /\ messages' = messages \o
                (IF deleted THEN <<>>
                 ELSE <<Message("unable to delete", locals.polygons)>>) \o
                (IF line_field THEN <<>>
                 ELSE <<Message("unable to delete field", locals.output_line_fc)>>) \o
                (IF point_field THEN <<>>
                 ELSE <<Message("unable to delete field", locals.output_point_fc)>>) \o
                <<ToolCompleted>>
    /\ pc' = "done"
    /\ UNCHANGED <<script, mode, inputs, locals>>

InitPolygon ==
    /\ script = "polygon"
    /\ \/ mode = "test" /\ locals = PolygonHardCoded
       \/ mode = "tool" /\ locals \in PolygonToolParams
    /\ inputs \in {[xsln_file |-> f,
                    profiles_3d |-> Profiles3dTable(f, locals.xsec_id_field, z),
                    polygons_orig |-> p] :
                      f \in XslnFiles, z \in BOOLEAN, p \in PolygonInputs}
    /\ pc = "s3"
    /\ gdb = NoDatasets
    /\ messages = <<>>

NextPolygon ==
    \/ PolygonSection3 \/ PolygonSection5 \/ PolygonSection6 \/ PolygonSection7
    \/ PolygonSection8 \/ PolygonSection9 \/ PolygonSection10 \/ PolygonSection11
    \/ PolygonSection12

SpecPolygon == InitPolygon /\ [][NextPolygon]_vars

-----------------------------------------------------------------------------
(* Vertical_Lines_Intersect.py                                             *)

\* map lines running along X = const, and map points lying on a trace
LineFeatures == {[unit |-> "fault", X |-> 500], [unit |-> "dike", X |-> 1000]}
PointFeatures ==
    {[unit |-> "spring", on |-> "B", seg |-> 1, X |-> 800],
     [unit |-> "quarry", on |-> "A", seg |-> 1, X |-> 1500]}

FeatureFiles(S) ==
    UNION {{f \in [1..n -> S] : \A i, j \in 1..n : i # j => f[i] # f[j]} :
           n \in 0..MaxFeatures}

\* a line or point feature class: its fields and rows
FeatureTable(file) ==
    [fields |-> <<"OBJECTID", "Shape", "unit">>,
     rows |-> [i \in DOMAIN file |->
                  ("OBJECTID" :> i) @@ ("Shape" :> file[i]) @@ ("unit" :> file[i].unit)]]

\* the feature classes given as intersect_fc, with Describe().shapeType
IntersectInputs ==
    {[shapeType |-> "Polygon", table |-> PolygonTable(f, "")] : f \in PolygonFiles} \cup
    {[shapeType |-> "Polyline", table |-> FeatureTable(f)] : f \in FeatureFiles(LineFeatures)}
    \cup
    {[shapeType |-> t, table |-> FeatureTable(f)] :
        t \in {"Point", "Multipoint"}, f \in FeatureFiles(PointFeatures)}

\* section 2, else branch
VerticalHardCoded == [xsec_id_field |-> "et_id", vertical_exaggeration |-> 50]

\* section 2, tool branch
VerticalToolParams ==
    {[xsec_id_field |-> p.id_field, vertical_exaggeration |-> p.vertical_exaggeration] :
        p \in ProfileToolParams}

\* os.path.basename of output_line_fc, of intersect_fc and of xsln
output_name == "polygon_output"
intersect_name == "polygon_input"
xsln_name == "xsln_diagonal"

\* the attribute fields an overlay carries over from an input
AttributeFields(fields) ==
    SelectSeq(fields, LAMBDA f :
        f \notin {"OBJECTID", "Shape", "Shape_Length", "Shape_Area"})

\* the geometry a feature and a trace have in common: of a polygon the parts
\* of the trace inside it (lines), of a line the points where the trace
\* crosses it, of a point the point itself when it lies on the trace
CommonParts(shapeType, shape, trace) ==
    LET verts == TraceVertices(trace)
        v == trace.verts
    IN  IF shapeType = "Polygon"
        THEN Runs(verts, [k \in DOMAIN verts |->
                             shape.XMin <= verts[k].X /\ verts[k].X <= shape.XMax],
                  1, <<>>)
        ELSE IF shapeType = "Polyline"
        THEN LET hit == {k \in 1..(Len(v) - 1) :
                            /\ SetMin({v[k].X, v[k + 1].X}) <= shape.X
                            /\ shape.X <= SetMax({v[k].X, v[k + 1].X})}
                 RECURSIVE InOrder(_)
                 InOrder(S) == IF S = {} THEN <<>>
                               ELSE <<[seg |-> SetMin(S), X |-> shape.X]>> \o
                                    InOrder(S \ {SetMin(S)})
             IN  InOrder(hit)
        ELSE IF shape.on = trace.id THEN <<[seg |-> shape.seg, X |-> shape.X]>> ELSE <<>>

\* lines 90-95, analysis.Intersect with 'ALL': per pair of features with
\* something in common one multipart row, with FID_<input> and the attributes
\* of both inputs, in the order of the inputs
VerticalIntersectFields(shapeType, in_fields, xsln_fields) ==
    LET mine == <<"FID_" \o intersect_name>> \o AttributeFields(in_fields)
        theirs == <<"FID_" \o xsln_name>> \o AttributeFields(xsln_fields)
    IN  IF shapeType = "Polygon"
        THEN <<"OBJECTID", "Shape">> \o mine \o theirs \o <<"Shape_Length">>
        ELSE <<"OBJECTID", "Shape">> \o theirs \o mine

VerticalIntersectRows(shapeType, table, file, id_field) ==
    LET xsln == XslnTable(file, id_field)
        pair(f, t) ==
            LET parts == CommonParts(shapeType, table.rows[f]["Shape"], file[t])
            IN  IF parts = <<>> THEN <<>>
                ELSE <<("Shape" :> parts) @@
                       ("FID_" \o intersect_name :> f) @@ ("FID_" \o xsln_name :> t) @@
                       [n \in Range(AttributeFields(table.fields)) |-> table.rows[f][n]] @@
                       [n \in Range(AttributeFields(xsln.fields)) |-> xsln.rows[t][n]]>>
    IN  IF shapeType = "Polygon"
        THEN Flatten([f \in DOMAIN table.rows |->
                 Flatten([t \in DOMAIN file |-> pair(f, t)])])
        ELSE Flatten([t \in DOMAIN file |->
                 Flatten([f \in DOMAIN table.rows |-> pair(f, t)])])

\* lines 107-119: "for field in fields_list: if <system field>:
\* fields_list.remove(field) else: field_name_list.append(field.name)", the
\* iterator reading fields_list[i] as the removals have left it; on
\* <<fields_list, i, field_name_list>>
RECURSIVE DissolveFieldsLoop(_)
DissolveFieldsLoop(st) ==
    LET fields_list == st[1]
        i == st[2]
    IN  IF i > Len(fields_list) THEN st[3]
        ELSE IF fields_list[i] \in {"OBJECTID", "Shape", "FID", "Shape_Length"}
        THEN DissolveFieldsLoop(<<ListRemove(fields_list, fields_list[i]), i + 1, st[3]>>)
        ELSE DissolveFieldsLoop(<<fields_list, i + 1, Append(st[3], fields_list[i])>>)

\* line 122, Dissolve by field_name_list, SINGLE_PART: the rows keep these
\* fields; the pieces are apart from each other, so none are merged
Dissolve(data, field_name_list, shapeType) ==
    [fields |-> <<"OBJECTID", "Shape">> \o field_name_list \o
                (IF shapeType = "Polyline" THEN <<"Shape_Length">> ELSE <<>>),
     shapeType |-> shapeType,
     rows |-> Numbered([i \in DOMAIN data.rows |->
                  [n \in Range(field_name_list) \cup {"Shape"} |-> data.rows[i][n]]])]

\* lines 190 and 227
VerticalX2d(x_2d_raw, vertical_exaggeration) ==
    RatDiv(RatDiv(x_2d_raw, FootInMetres), ToRat(vertical_exaggeration))

\* the marker lines of one trace with one line per feature, at x_list[0]
VerticalRowsFirstOnly(trace, shape, temp_rows, l) ==
    LET mine == SelectSeq(temp_rows, LAMBDA r : r[l.xsec_id_field] = trace.id)
    IN  [k \in DOMAIN mine |->
            LET first == IF shape = "Polyline" THEN mine[k]["Shape"][1]
                         ELSE mine[k]["Shape"]
            IN  ("Shape" :> <<Point(VerticalX2d(measureOnLine(trace, first),
                                                l.vertical_exaggeration), 0),
                              Point(VerticalX2d(measureOnLine(trace, first),
                                                l.vertical_exaggeration), 2500)>>) @@
                (l.xsec_id_field :> trace.id) @@ ("unique_id" :> mine[k]["unique_id"])]

\* lines 170-237: the marker lines of one trace, from y_2d_1 = 0 to
\* y_2d_2 = 2500: two per line feature, one per point feature
VerticalRows(trace, shape, temp_rows, l) ==
    LET mine == SelectSeq(temp_rows, LAMBDA r : r[l.xsec_id_field] = trace.id)
        y_2d_1 == 0
        y_2d_2 == 2500
    IN  Flatten([k \in DOMAIN mine |->
            LET unique_id == mine[k]["unique_id"]
                row(x) == ("Shape" :> <<Point(x, y_2d_1), Point(x, y_2d_2)>>) @@
                          (l.xsec_id_field :> trace.id) @@ ("unique_id" :> unique_id)
            IN  IF shape = "Polyline"
                THEN LET x_list == [n \in DOMAIN mine[k]["Shape"] |->
                                       VerticalX2d(measureOnLine(trace, mine[k]["Shape"][n]),
                                                   l.vertical_exaggeration)]
                     IN  <<row(x_list[1]), row(x_list[Len(x_list)])>>
                ELSE IF shape = "Point"
                THEN <<row(VerticalX2d(measureOnLine(trace, mine[k]["Shape"]),
                                       l.vertical_exaggeration))>>
                ELSE <<>>])

\* sections 3-4 (lines 73-101): the intersection by shape type, made single
\* part.  An invalid shape type is reported and leaves nothing to convert:
\* MultipartToSinglepart then raises.
VerticalSection4 ==
    /\ script = "vertical" /\ pc = "s3"
    /\ LET shape == inputs.intersect_fc.shapeType
           fields == VerticalIntersectFields(shape, inputs.intersect_fc.table.fields,
                                             XslnFields(locals.xsec_id_field))
           multi == VerticalIntersectRows(shape, inputs.intersect_fc.table, inputs.xsln,
                                          locals.xsec_id_field)
           single == IF shape = "Polygon" THEN MultipartToSinglepart(multi)
                     ELSE Flatten([i \in DOMAIN multi |->
                              [k \in DOMAIN multi[i]["Shape"] |->
                                  ("Shape" :> multi[i]["Shape"][k]) @@ ("ORIG_FID" :> i)
                                  @@ multi[i]]])
           l1 == Assign(locals, [shape |-> shape,
                                 output_fc_temp_multi |-> output_name \o "_temp_multi"])
       IN  IF shape \in {"Polygon", "Polyline", "Point"}
           THEN /\ locals' = Assign(l1, [output_fc_temp1 |-> output_name \o "_temp1"])
                /\ gdb' = (output_name \o "_temp_multi" :> [fields |-> fields, rows |-> multi])
                          @@ (output_name \o "_temp1" :>
                                 [fields |-> Append(fields, "ORIG_FID"), rows |-> single])
                          @@ gdb
                /\ messages' = messages
                /\ pc' = "s5"
           ELSE /\ locals' = Raise(Assign(l1, [output_fc_temp1 |-> output_name \o "_temp1"]),
                                   "ExecuteError")
                /\ gdb' = gdb
                /\ messages' = Append(messages, Message("error", "invalid shape type"))
                /\ pc' = "error"
    /\ UNCHANGED <<script, mode, inputs>>

\* section 5 (lines 107-122): dissolved by the attribute fields
VerticalSection5 ==
    /\ script = "vertical" /\ pc = "s5"
    /\ LET field_name_list == DissolveFieldsLoop(<<gdb[locals.output_fc_temp1].fields, 1, <<>> >>)
       IN  /\ locals' = Assign(locals, [field_name_list |-> field_name_list,
                                        output_fc_temp |-> output_name \o "_temp"])
           /\ gdb' = (output_name \o "_temp" :>
                         Dissolve(gdb[locals.output_fc_temp1], field_name_list,
                                  IF locals.shape = "Polygon" THEN "Polyline" ELSE "Point"))
                     @@ gdb
    /\ pc' = "s6"
    /\ UNCHANGED <<script, mode, inputs, messages>>

\* section 6 (lines 128-141): the unique_id field
VerticalSection6 ==
    /\ script = "vertical" /\ pc = "s6"
    /\ locals' = Assign(locals, [unique_id_field |-> "unique_id"])
    /\ gdb' = [gdb EXCEPT ![locals.output_fc_temp] =
                  [shapeType |-> @.shapeType] @@ AddUniqueId(@)]
    /\ messages' = messages \o UnableToAddField(gdb[locals.output_fc_temp])
    /\ pc' = "s7"
    /\ UNCHANGED <<script, mode, inputs>>

\* section 7 (lines 145-148): the empty output line file
VerticalSection7 ==
    /\ script = "vertical" /\ pc = "s7"
    /\ gdb' = CreateDataset(gdb, output_name,
                  <<"OBJECTID", "Shape", locals.xsec_id_field, locals.unique_id_field>>)
    /\ pc' = "s8"
    /\ UNCHANGED <<script, mode, inputs, locals, messages>>

\* section 8 (lines 152-237): the marker lines, trace by trace.  The cursor's
\* where clause names the trace-ID field: without it in the dissolved file the
\* cursor raises.
VerticalSection8 ==
    /\ script = "vertical" /\ pc = "s8"
    /\ LET temp == gdb[locals.output_fc_temp]
           shape == temp.shapeType
           l1 == Assign(locals, [shape |-> shape])
       IN  IF inputs.xsln = <<>>
           THEN gdb' = gdb /\ locals' = l1 /\ pc' = "s9"
           ELSE IF locals.xsec_id_field \notin Range(temp.fields)
           THEN gdb' = gdb /\ locals' = Raise(l1, "RuntimeError") /\ pc' = "error"
           ELSE IF locals.vertical_exaggeration = 0 /\
                   (\E i \in DOMAIN inputs.xsln : \E k \in DOMAIN temp.rows :
                        temp.rows[k][locals.xsec_id_field] = inputs.xsln[i].id)
           THEN gdb' = gdb /\ locals' = Raise(l1, "ZeroDivisionError") /\ pc' = "error"
           ELSE /\ gdb' = InsertRows(gdb, output_name,
                              Flatten([i \in DOMAIN inputs.xsln |->
                                  VerticalRows(inputs.xsln[i], shape, temp.rows, locals)]))
                /\ locals' = l1 /\ pc' = "s9"
    /\ UNCHANGED <<script, mode, inputs, messages>>

\* section 9 (lines 242-270): the attributes joined on unique_id
VerticalSection9 ==
    /\ script = "vertical" /\ pc = "s9"
    /\ LET fields == join_fields(gdb[locals.output_fc_temp].fields)
       IN  /\ locals' = Assign(locals, [join_fields |-> fields])
           /\ gdb' = [gdb EXCEPT ![output_name] =
                         JoinField(@, locals.unique_id_field, gdb[locals.output_fc_temp],
                                   locals.unique_id_field, fields)]
    /\ pc' = "s10"
    /\ UNCHANGED <<script, mode, inputs, messages>>

\* section 10 (lines 274-282): the three temporary files and the unique_id
\* field, each in its own try, and section 11 (lines 285-287)
VerticalSection10 ==
    /\ script = "vertical" /\ pc = "s10"
    /\ LET names == <<locals.output_fc_temp_multi, locals.output_fc_temp,
                      locals.output_fc_temp1>>
       IN  \E failed \in DeleteOutcomes(gdb, names), field \in BOOLEAN :
              /\ gdb' = LET g1 == TryDeletes(gdb, names, failed)
                        IN  IF field
                            THEN [g1 EXCEPT ![output_name] =
                                     DeleteField(@, locals.unique_id_field)]
                            ELSE g1
              /\ messages' = messages \o UnableToDelete(names, failed) \o
                    (IF field THEN <<>>
                     ELSE <<Message("unable to delete field", output_name)>>) \o
                    <<ToolCompleted>>
    /\ pc' = "done"
    /\ UNCHANGED <<script, mode, inputs, locals>>

InitVertical ==
    /\ script = "vertical"
    /\ \/ mode = "test" /\ locals = VerticalHardCoded
       \/ mode = "tool" /\ locals \in VerticalToolParams
    /\ inputs \in {[xsln |-> f, intersect_fc |-> t] :
                      f \in XslnFiles, t \in IntersectInputs}
    /\ pc = "s3"
    /\ gdb = NoDatasets
    /\ messages = <<>>

NextVertical ==
    \/ VerticalSection4 \/ VerticalSection5 \/ VerticalSection6 \/ VerticalSection7
    \/ VerticalSection8 \/ VerticalSection9 \/ VerticalSection10

SpecVertical == InitVertical /\ [][NextVertical]_vars

-----------------------------------------------------------------------------
(* The five scripts                                                        *)

InitTools == InitGrid \/ InitCwi \/ InitRaster \/ InitPolygon \/ InitVertical

NextTools == NextGrid \/ NextCwi \/ NextRaster \/ NextPolygon \/ NextVertical

SpecTools == InitTools /\ [][NextTools]_vars

-----------------------------------------------------------------------------
(* Cross-section view and trace identifiers: the claims                    *)

\* the trace file of the run, under the name the script gives it
TraceFile ==
    IF script = "raster" THEN inputs.xsln_file_orig
    ELSE IF script \in {"grid", "polygon"} THEN inputs.xsln_file
    ELSE inputs.xsln

TraceIds == {TraceFile[i].id : i \in DOMAIN TraceFile}
TraceWithId(id) == TraceFile[CHOOSE i \in DOMAIN TraceFile : TraceFile[i].id = id]

\* (d / 0.3048) / v as one fraction: d * 10000 / (3048 * v), for v # 0
QuotientX(d, v) == Rat(d[1] * 10000, d[2] * 3048 * v)

\* the arc-length positions the runs convert: of every point a tool puts on a
\* trace of the input
SampleMeasures ==
    UNION {{measureOnLine(TraceFile[i], TraceVertices(TraceFile[i])[k]) :
               k \in DOMAIN TraceVertices(TraceFile[i])} : i \in DOMAIN TraceFile}

\* the 3D rows behind the rows of a 2D output, in the order of the output:
\* trace by trace, the rows with the trace's ID
RowsByTrace(rows, id_field) ==
    Flatten([i \in DOMAIN TraceFile |->
        SelectSeq(rows, LAMBDA r : r[id_field] = TraceFile[i].id)])

\* every vertex of every 2D row is (QuotientX(d, v), Z) of the vertex of the
\* 3D row at the same place, d its measure along its trace
ConvertedFrom(rows2d, source, id_field, v) ==
    /\ Len(rows2d) = Len(source)
    /\ \A k \in DOMAIN rows2d :
          /\ DOMAIN rows2d[k]["Shape"] = DOMAIN source[k]["Shape"]
          /\ \A n \in DOMAIN source[k]["Shape"] :
                LET vertex == source[k]["Shape"][n]
                    d == measureOnLine(TraceWithId(source[k][id_field]), vertex)
                IN  rows2d[k]["Shape"][n] = Point(QuotientX(d, v), vertex.Z)

\* the rasters whose 2D profiles are written
RastersConverted ==
    IF script = "raster" /\ Assigned("raster_iter")
    THEN {locals.rasters_list[i] : i \in
             {j \in DOMAIN locals.rasters_list :
                 \/ j < locals.raster_iter
                 \/ j = locals.raster_iter /\ pc \in {"s6_join", "s7", "done"}}}
    ELSE {}

\* C5: a 3D profile vertex at d metres along its trace with elevation e is
\* written at display X = (d / 0.3048) / v and display Y = e by the raster
\* profiler and the polygon / profile intersect; the marker lines and the
\* reference grid's x-lines are written at display X = (d / 0.3048) / v; and
\* the four conversion sites give the same X for the same d and v.
C5_DisplayCoordinates ==
    /\ \A name \in RastersConverted :
          ConvertedFrom(RowsOf(profiles_2d(name, locals.vertical_exaggeration)),
                        RowsByTrace(RowsOf(profiles_3d(name)), locals.xsln_etid_field),
                        locals.xsln_etid_field, locals.vertical_exaggeration)
    /\ (script = "polygon" /\ pc = "s8") =>
          ConvertedFrom(RowsOf(locals.output_line_fc),
                        RowsByTrace(RowsOf(locals.output_line_fc_temp), locals.xsec_id_field),
                        locals.xsec_id_field, locals.vertical_exaggeration)
    /\ (script = "vertical" /\ pc = "s9") =>
          LET source == RowsByTrace(RowsOf(locals.output_fc_temp), locals.xsec_id_field)
              ends == Flatten([k \in DOMAIN source |->
                         IF locals.shape = "Polyline"
                         THEN <<<<source[k], source[k]["Shape"][1]>>,
                                <<source[k], source[k]["Shape"][Len(source[k]["Shape"])]>> >>
                         ELSE << <<source[k], source[k]["Shape"]>> >>])
          IN  /\ Len(RowsOf(output_name)) = Len(ends)
              /\ \A k \in DOMAIN ends :
                    \A n \in 1..2 :
                        RowsOf(output_name)[k]["Shape"][n].X =
                            QuotientX(measureOnLine(
                                          TraceWithId(ends[k][1][locals.xsec_id_field]),
                                          ends[k][2]),
                                      locals.vertical_exaggeration)
    /\ (script = "grid" /\ pc = "done") =>
          \A k \in DOMAIN RowsOf("xcoord_ref_lines") :
              LET row == RowsOf("xcoord_ref_lines")[k]
              IN  \E d \in Range(IntersectMeasures(TraceWithId(row[locals.xsln_id_field]),
                                                   row["label"])) :
                      /\ row["SHAPE"][1].X = QuotientX(d, locals.vertical_exaggeration)
                      /\ row["SHAPE"][2].X = QuotientX(d, locals.vertical_exaggeration)
    /\ (pc = "s3" /\ Assigned("vertical_exaggeration")
            /\ locals.vertical_exaggeration # 0) =>
          \A d \in SampleMeasures :
              LET v == locals.vertical_exaggeration
              IN  /\ RasterX2d(d, v) = QuotientX(d, v)
                  /\ PolygonX2d(d, v) = QuotientX(d, v)
                  /\ VerticalX2d(d, v) = QuotientX(d, v)
                  /\ GridDisplayX(d, v) = QuotientX(d, v)

C5_Witness ==
    /\ script = "polygon" /\ pc = "s8"
    /\ locals.vertical_exaggeration = -2
    /\ \E k \in DOMAIN RowsOf(locals.output_line_fc) :
          LET geom == RowsOf(locals.output_line_fc)[k]["Shape"]
          IN  /\ geom[Len(geom)].X[2] # 1
              /\ geom[1].Y # geom[Len(geom)].Y
              /\ geom[1].Y # Null

\* C6: for every trace, every vertical exaggeration a script accepts and
\* every two points P, Q converted on it, P's arc-length position <= Q's
\* implies display_x(P) <= display_x(Q), in the profiles of the raster
\* profiler and the lines of the polygon / profile intersect.
MonotoneAlong(rows2d, source, id_field) ==
    \A k \in DOMAIN source :
        \A n, m \in DOMAIN source[k]["Shape"] :
            LET trace == TraceWithId(source[k][id_field])
            IN  RatLE(measureOnLine(trace, source[k]["Shape"][n]),
                      measureOnLine(trace, source[k]["Shape"][m]))
                    => RatLE(rows2d[k]["Shape"][n].X, rows2d[k]["Shape"][m].X)

C6_DisplayXMonotone ==
    /\ \A name \in RastersConverted :
          MonotoneAlong(RowsOf(profiles_2d(name, locals.vertical_exaggeration)),
                        RowsByTrace(RowsOf(profiles_3d(name)), locals.xsln_etid_field),
                        locals.xsln_etid_field)
    /\ (script = "polygon" /\ pc = "s8") =>
          MonotoneAlong(RowsOf(locals.output_line_fc),
                        RowsByTrace(RowsOf(locals.output_line_fc_temp), locals.xsec_id_field),
                        locals.xsec_id_field)

\* the output datasets of the run that exist, each with the name of the
\* trace-ID field of the run
IdField ==
    IF script = "grid" THEN locals.xsln_id_field
    ELSE IF script = "cwi" THEN "et_id"
    ELSE IF script = "raster" THEN locals.xsln_etid_field
    ELSE locals.xsec_id_field

PerTraceOutputs ==
    DOMAIN gdb \cap
    (IF script = "grid" THEN {"xcoord_ref_lines"}
     ELSE IF script = "cwi" THEN {"wwpt", "strat_cwi"}
     ELSE IF script = "raster"
     THEN {profiles_2d(r.name, locals.vertical_exaggeration) : r \in Rasters}
     ELSE IF script = "polygon"
     THEN {input_name \o k \o ToString(locals.vertical_exaggeration) \o "x" :
              k \in {"_intersect_lines_", "_intersect_points_"}}
     ELSE {output_name})

OtherOutputs ==
    DOMAIN gdb \cap
    (IF script = "grid" THEN {"elevation_ref_lines"}
     ELSE IF script = "cwi" THEN {"constr_cwi"} ELSE {})

CarriesTraceId(name) ==
    \A k \in DOMAIN gdb[name].rows :
        /\ IdField \in DOMAIN gdb[name].rows[k]
        /\ gdb[name].rows[k][IdField] \in TraceIds

\* C10 as stated: every record of every output dataset (elevation_ref_lines,
\* xcoord_ref_lines, wwpt, strat_cwi, constr_cwi, the polygon intersect lines
\* and points, the 2D raster profiles, the vertical marker lines) carries the
\* ID of its trace, also after the joins and the deletion of unique_id.
C10_EveryOutputCarriesTraceId ==
    \A name \in PerTraceOutputs \cup OtherOutputs : CarriesTraceId(name)

\* C10 amended: every record of xcoord_ref_lines, wwpt, strat_cwi, the polygon
\* intersect lines and points, the 2D raster profiles and the vertical marker
\* lines carries the ID of its trace in the trace-ID field, at every step
\* from its insertion on, the joins and the deletion of unique_id included.
C10_PerTraceOutputsCarryTraceId ==
    \A name \in PerTraceOutputs : CarriesTraceId(name)

C10_Witness ==
    /\ script = "polygon" /\ pc = "done"
    /\ locals.xsec_id_field = "xsec_no"
    /\ "xsec_no" \in Range(inputs.polygons_orig.fields)
    /\ \A name \in PerTraceOutputs :
          /\ "unique_id" \notin Range(gdb[name].fields)
          /\ "xsec_no_1" \in Range(gdb[name].fields)
          /\ Len(gdb[name].rows) >= 2
    /\ Cardinality(PerTraceOutputs) = 2

-----------------------------------------------------------------------------
(* Error handling and cleanup                                              *)

\* the messages printerror writes for a missing field or an unexpected
\* geometry type
FatalInputMessages ==
    {Message("error", "profiles do not have z"),
     Message("error", "invalid shape type")}

InputErrorReported == \E i \in DOMAIN messages : messages[i] \in FatalInputMessages

\* C11: once a missing field or an unexpected geometry type has been
\* reported, the run has halted and no output or intermediate dataset has
\* been created.
C11_InputErrorHaltsBeforeOutputs ==
    InputErrorReported => pc = "error" /\ gdb = NoDatasets


\* the temporary intermediate datasets of the running script: buffer, clipped
\* points and selection table (well data); multipart, single-part and
\* dissolved intersect results (markers); temporary polygon copy and
\* intersect results (polygon intersect); multipart profiles, per-raster
\* feature dataset and the per-trace profiles in it (raster profiler)
IntermediateDatasets ==
    CASE script = "cwi" ->
            {"xsln_buffer", "wwpt_temp", "strat_temp", "strat_temp2", "constr_cwi_temp"}
      [] script = "vertical" ->
            {output_name \o "_temp_multi", output_name \o "_temp1", output_name \o "_temp"}
      [] script = "polygon" ->
            {locals.polygons, locals.output_line_fc_temp_multi, locals.output_line_fc_temp}
      [] script = "raster" ->
            {profiles_3d_multi(locals.rasters_list[i]) : i \in DOMAIN locals.rasters_list}
            \cup {profiles_3d_byxsec(locals.rasters_list[i]) : i \in DOMAIN locals.rasters_list}
            \cup {n \in DOMAIN gdb : "within" \in DOMAIN gdb[n]}
      [] OTHER -> {}

\* a Delete was run on the dataset: it is gone, or the except branch reported
\* it (or the feature dataset it is in)
DeleteAttempted(name) ==
    \/ name \notin DOMAIN gdb
    \/ \E i \in DOMAIN messages :
          \/ messages[i] = Message("unable to delete", name)
          \/ /\ "within" \in DOMAIN gdb[name]
             /\ messages[i] = Message("unable to delete", gdb[name].within)

RunReachedEnd == pc = "done" /\ messages # <<>> /\ messages[Len(messages)] = ToolCompleted

\* C12: when a run has written its final elapsed-time message, every
\* temporary intermediate dataset the script created has had a delete
\* attempted on it.
C12_TemporariesDeleteAttempted ==
    RunReachedEnd => \A name \in IntermediateDatasets : DeleteAttempted(name)


\* the run was ended by the exception of a Delete: in the raster profiler the
\* Delete of the multipart profiles (line 106) is the one call that raises
\* ExecuteError, and it leaves the multipart profiles in place
HaltedByDelete ==
    /\ script = "raster" /\ pc = "error"
    /\ Assigned("exception") /\ locals.exception = "ExecuteError"
    /\ profiles_3d_multi(RasterName) \in DOMAIN gdb

DeleteFailureReported ==
    \E i \in DOMAIN messages :
        messages[i].kind \in {"unable to delete", "unable to delete field"}

\* C13: a failed delete of a temporary dataset or field never stops the run:
\* no run is ended by the exception of a Delete, and a run that reported a
\* failed delete is not halted.
C13_DeleteFailureDoesNotStop ==
    /\ ~HaltedByDelete
    /\ DeleteFailureReported => pc # "error"


-----------------------------------------------------------------------------
(* Raster profiler: the spatial reference check                            *)

UnknownSpatialReference == script = "raster" /\ inputs.spatialref = "Unknown"

\* the single-part 3D profiles of a raster, from the raster and the traces
Expected3dProfiles(name) ==
    MultipartToSinglepart(InterpolateShape(RasterNamed(name), inputs.xsln_file_orig,
                                           locals.xsln_etid_field))

\* C14: with a trace file of Unknown spatial reference the raster profiler
\* writes the message and goes on: it halts only for the reasons a run with
\* a known spatial reference halts for, and the 3D and 2D profiles of every
\* raster are the ones computed from the raster and the traces alone.
C14_UnknownSpatialRefMessageOnly ==
    UnknownSpatialReference =>
       /\ pc # "s3" =>
             \E i \in DOMAIN messages :
                 messages[i] = Message("error", "unknown spatial reference")
       /\ pc = "error" =>
             \/ locals.exception = "ExecuteError" /\ HaltedByDelete
             \/ locals.exception = "ZeroDivisionError" /\ locals.vertical_exaggeration = 0
       /\ \A name \in RastersConverted :
             /\ RowsOf(profiles_3d(name)) = Expected3dProfiles(name)
             /\ ConvertedFrom(RowsOf(profiles_2d(name, locals.vertical_exaggeration)),
                              RowsByTrace(Expected3dProfiles(name), locals.xsln_etid_field),
                              locals.xsln_etid_field, locals.vertical_exaggeration)
       /\ pc \in {"s7", "done"} => RastersConverted = Range(locals.rasters_list)

C14_Witness ==
    /\ UnknownSpatialReference /\ pc = "done"
    /\ Len(locals.rasters_list) = 2
    /\ \A name \in Range(locals.rasters_list) :
          RowsOf(profiles_2d(name, locals.vertical_exaggeration)) # <<>>


-----------------------------------------------------------------------------
(* Vertical marker lines: the claims                                       *)

\* the marker lines are written and the dissolved features still exist
MarkersWritten == script = "vertical" /\ pc \in {"s9", "s10"}

\* a two-vertex vertical line at display X = x from Y = 0 to Y = 2500
VerticalLineAt(x) == <<Point(x, 0), Point(x, 2500)>>

\* the display X of a vertex of a dissolved feature on a trace
MarkerX(trace, vertex) ==
    QuotientX(measureOnLine(trace, vertex), locals.vertical_exaggeration)

\* C15: for each trace and each dissolved feature with the trace's ID, a line
\* feature has exactly two marker rows, at the display X of its first and of
\* its last vertex, and a point feature exactly one, at its display X; every
\* marker row is a vertical line from Y = 0 to Y = 2500 with the trace ID
\* and the join key of a dissolved feature.
C15_MarkersPerFeature ==
    MarkersWritten =>
       LET temp == gdb[locals.output_fc_temp]
           out == gdb[output_name].rows
           idf == locals.xsec_id_field
           of(r) == {k \in DOMAIN out : out[k]["unique_id"] = r["unique_id"]}
       IN  /\ \A i \in DOMAIN inputs.xsln : \A n \in DOMAIN temp.rows :
                 LET trace == inputs.xsln[i]
                     r == temp.rows[n]
                 IN  r[idf] = trace.id =>
                        IF temp.shapeType = "Polyline"
                        THEN \E k1, k2 \in DOMAIN out :
                                /\ k1 # k2 /\ of(r) = {k1, k2}
                                /\ out[k1]["Shape"] =
                                      VerticalLineAt(MarkerX(trace, r["Shape"][1]))
                                /\ out[k2]["Shape"] =
                                      VerticalLineAt(MarkerX(trace,
                                          r["Shape"][Len(r["Shape"])]))
                                /\ out[k1][idf] = trace.id /\ out[k2][idf] = trace.id
                        ELSE \E k \in DOMAIN out :
                                /\ of(r) = {k}
                                /\ out[k]["Shape"] =
                                      VerticalLineAt(MarkerX(trace, r["Shape"]))
                                /\ out[k][idf] = trace.id
           /\ \A k \in DOMAIN out :
                 /\ \E x \in {out[k]["Shape"][1].X} : out[k]["Shape"] = VerticalLineAt(x)
                 /\ \E n \in DOMAIN temp.rows :
                       /\ temp.rows[n]["unique_id"] = out[k]["unique_id"]
                       /\ temp.rows[n][idf] = out[k][idf]
                       /\ out[k][idf] \in TraceIds

\* both cases at once is impossible in one run; the line case, with a
\* feature whose first and last vertex differ
C15_Witness ==
    /\ MarkersWritten
    /\ gdb[locals.output_fc_temp].shapeType = "Polyline"
    /\ Len(gdb[output_name].rows) >= 4
    /\ \E k1, k2 \in DOMAIN gdb[output_name].rows :
          /\ gdb[output_name].rows[k1]["unique_id"] = gdb[output_name].rows[k2]["unique_id"]
          /\ gdb[output_name].rows[k1]["Shape"] # gdb[output_name].rows[k2]["Shape"]


-----------------------------------------------------------------------------
(* Polygon / profile intersect: the claims                                 *)

PointsWritten == script = "polygon" /\ pc \in {"s11", "s12", "done"}

\* C16: the point output holds, for the k-th row of the 2D line output, two
\* rows: one at the line's first vertex and one at its last vertex, each with
\* the line's trace ID and (while the key field exists) its join key; the
\* point rows are twice the line rows.
C16_TwoPointsPerLine ==
    PointsWritten =>
       LET lines == gdb[locals.output_line_fc].rows
           points == gdb[locals.output_point_fc].rows
           idf == locals.xsec_id_field
       IN  /\ Len(points) = 2 * Len(lines)
           /\ \A k \in DOMAIN lines :
                 /\ points[2 * k - 1]["Shape"] = lines[k]["Shape"][1]
                 /\ points[2 * k]["Shape"] = lines[k]["Shape"][Len(lines[k]["Shape"])]
                 /\ points[2 * k - 1][idf] = lines[k][idf]
                 /\ points[2 * k][idf] = lines[k][idf]
                 /\ pc \in {"s11", "s12"} =>
                       /\ points[2 * k - 1]["unique_id"] = lines[k]["unique_id"]
                       /\ points[2 * k]["unique_id"] = lines[k]["unique_id"]

C16_Witness ==
    /\ PointsWritten /\ pc = "done"
    /\ Len(gdb[locals.output_line_fc].rows) >= 2
    /\ Len(gdb[locals.output_point_fc].rows) >= 4
    /\ \E k \in DOMAIN gdb[locals.output_line_fc].rows :
          gdb[locals.output_point_fc].rows[2 * k - 1]["Shape"] #
          gdb[locals.output_point_fc].rows[2 * k]["Shape"]


\* the temporary polygon copy exists, from the intersection to the joins
KeyInUse == script = "polygon" /\ pc \in {"s5", "s6", "s7", "s8", "s9", "s10", "s11", "s12"}

HasField(name, field) == name \in DOMAIN gdb /\ field \in Range(gdb[name].fields)

\* unique_id of the temporary copy is its object identifier, set before the
\* intersection; the outputs keep the key field up to the joins; after the
\* joins every output row has the attributes of the polygon with its key
KeyFilledAndJoined ==
    /\ KeyInUse =>
          /\ HasField(locals.polygons, "unique_id")
          /\ \A i \in DOMAIN gdb[locals.polygons].rows :
                gdb[locals.polygons].rows[i]["unique_id"] =
                gdb[locals.polygons].rows[i]["OBJECTID"]
    /\ script = "polygon" /\ pc = "s5" => DOMAIN gdb = {locals.polygons}
    /\ script = "polygon" /\ pc \in {"s7", "s8", "s9", "s10", "s11", "s12"} =>
          HasField(locals.output_line_fc, "unique_id")
    /\ script = "polygon" /\ pc \in {"s10", "s11", "s12"} =>
          HasField(locals.output_point_fc, "unique_id")
    /\ script = "polygon" /\ pc = "s12" =>
          \A out \in {locals.output_line_fc, locals.output_point_fc} :
             /\ HasField(out, "unit")
             /\ \A k \in DOMAIN gdb[out].rows :
                   gdb[out].rows[k]["unit"] =
                   gdb[locals.polygons].rows[gdb[out].rows[k]["unique_id"]]["unit"]

PolygonOutputs == {locals.output_line_fc, locals.output_point_fc}

\* C17 as stated: the key is filled before the intersection, both joins run
\* while the temporary copy and the key field exist, and at the end the
\* temporary copy is deleted and no output has a unique_id field.
C17_KeyDiscarded ==
    /\ KeyFilledAndJoined
    /\ script = "polygon" /\ pc = "done" =>
          /\ locals.polygons \notin DOMAIN gdb
          /\ \A out \in PolygonOutputs : ~HasField(out, "unique_id")

\* C17: the key is filled before the intersection, both joins run while the
\* temporary copy and the key field exist, and at the end the temporary copy
\* is deleted and the key field removed from each output, or the failure to
\* do so has been reported.
C17_KeyDiscardedOrReported ==
    /\ KeyFilledAndJoined
    /\ script = "polygon" /\ pc = "done" =>
          /\ \/ locals.polygons \notin DOMAIN gdb
             \/ \E i \in DOMAIN messages :
                   messages[i] = Message("unable to delete", locals.polygons)
          /\ \A out \in PolygonOutputs :
                \/ ~HasField(out, "unique_id")
                \/ \E i \in DOMAIN messages :
                      messages[i] = Message("unable to delete field", out)

C17_Witness ==
    /\ script = "polygon" /\ pc = "done"
    /\ gdb[locals.output_line_fc].rows # <<>>
    /\ HasField(locals.output_line_fc, "unit")
    /\ HasField(locals.output_line_fc, "unique_id")
    /\ ~HasField(locals.output_point_fc, "unique_id")
    /\ locals.polygons \notin DOMAIN gdb


-----------------------------------------------------------------------------
(* Raster profiler: rows per trace and surface                             *)

\* the 2D rows of a raster's output with the ID of a trace
ProfileRows2d(name, id) ==
    SelectSeq(RowsOf(profiles_2d(name, locals.vertical_exaggeration)),
              LAMBDA r : r[locals.xsln_etid_field] = id)

\* the parts of the draped profile of a trace: one without a gap in the
\* raster under the trace, several with gaps, none off the raster
DrapedParts(name, id) ==
    Flatten([i \in DOMAIN inputs.xsln_file_orig |->
        LET rows == InterpolateShape(RasterNamed(name), <<inputs.xsln_file_orig[i]>>,
                                     locals.xsln_etid_field)
        IN  IF inputs.xsln_file_orig[i].id = id /\ rows # <<>>
            THEN rows[1]["Shape"] ELSE <<>>])

\* C18 as stated: for every raster and every trace the 2D output of the
\* raster holds exactly one row with the trace's ID.
C18_OneRowPerTraceAndSurface ==
    \A name \in RastersConverted : \A id \in TraceIds :
        Len(ProfileRows2d(name, id)) = 1

\* C18: for every raster and every trace the 2D output of the raster holds
\* one row with the trace's ID per single-part segment of the trace's draped
\* profile, in order and with the vertices of the segment.
C18_OneRowPerSegment ==
    \A name \in RastersConverted : \A id \in TraceIds :
        LET rows == ProfileRows2d(name, id)
            parts == DrapedParts(name, id)
        IN  /\ Len(rows) = Len(parts)
            /\ \A k \in DOMAIN rows : Len(rows[k]["Shape"]) = Len(parts[k])

C18_Witness ==
    /\ script = "raster" /\ pc = "done"
    /\ \E name \in RastersConverted : \E id \in TraceIds :
          Len(DrapedParts(name, id)) = 2 /\ Len(ProfileRows2d(name, id)) = 2


-----------------------------------------------------------------------------
(* The fields joined back onto the outputs                                 *)

\* geometry, object identifier, shape length / area and the synthetic key
SystemFields == {"Shape", "OBJECTID", "FID", "Shape_Length", "Shape_Area", "unique_id"}

\* the attribute fields of a source that the join has to bring: all but the
\* system fields and the trace-ID field, which the output has from the start
AttributesToJoin(fields, id_field) ==
    {f \in Range(fields) : f \notin SystemFields /\ f # id_field}

\* C19: the join list holds every attribute field of the source record: of
\* the trace file in the raster profiler, of the polygon copy in the polygon
\* intersect, of the dissolved features in the marker script, whatever the
\* trace-ID field is called.
C19_JoinListComplete ==
    /\ script = "raster" /\ Assigned("xsln_field_names") =>
          AttributesToJoin(XslnFields(locals.xsln_etid_field), locals.xsln_etid_field)
             \subseteq Range(locals.xsln_field_names)
    /\ script = "polygon" /\ pc = "s12" =>
          AttributesToJoin(gdb[locals.polygons].fields, locals.xsec_id_field)
             \subseteq Range(locals.join_fields)
    /\ script = "vertical" /\ pc = "s10" =>
          AttributesToJoin(gdb[locals.output_fc_temp].fields, locals.xsec_id_field)
             \subseteq Range(locals.join_fields)


-----------------------------------------------------------------------------
(* Both invocation modes                                                   *)

\* the run was ended by the read of a name that its mode never assigned
UnassignedNameRead ==
    pc = "error" /\ Assigned("exception") /\ locals.exception = "NameError"

\* C20: in either invocation mode every variable a script reads has been
\* assigned, so no run is ended by the read of an unassigned name before the
\* final elapsed-time message.
C20_EveryVariableAssigned == ~UnassignedNameRead


-----------------------------------------------------------------------------
(* Reference grid: the x coordinate lines                                  *)

XcoordLinesWritten == script = "grid" /\ pc = "done"

\* the x coordinate values of the run, major and minor
UtmxValues == Range(locals.major_utmx) \cup Range(locals.minor_utmx)

\* the rows of xcoord_ref_lines with a trace's ID and a label
XcoordRowsOf(id, label) ==
    {k \in DOMAIN RowsOf("xcoord_ref_lines") :
        /\ RowsOf("xcoord_ref_lines")[k][locals.xsln_id_field] = id
        /\ RowsOf("xcoord_ref_lines")[k]["label"] = label}

\* C21: for each trace and each major or minor x coordinate value, the rows
\* with the trace's ID and the value as label are as many as the points where
\* the probe line at the value meets the trace, and each is a vertical line
\* from min_z to max_z at the display X of such a point.
C21_OneRowPerIntersection ==
    XcoordLinesWritten =>
       \A i \in DOMAIN inputs.xsln_file : \A utmx \in UtmxValues :
          LET trace == inputs.xsln_file[i]
              x_raws == IntersectMeasures(trace, utmx)
              rows == RowsOf("xcoord_ref_lines")
          IN  /\ Cardinality(XcoordRowsOf(trace.id, utmx)) = Len(x_raws)
              /\ \A k \in XcoordRowsOf(trace.id, utmx) :
                    \E n \in DOMAIN x_raws :
                       LET x == QuotientX(x_raws[n], locals.vertical_exaggeration)
                       IN  rows[k]["SHAPE"] =
                              <<Point(x, locals.min_z), Point(x, locals.max_z)>>


-----------------------------------------------------------------------------
(* Reference grid: the x coordinate range                                  *)

MaxExtentX == 16     \* extents are drawn from 100 * (0..MaxExtentX) metres

\* a straight west-east trace from X = a to X = b
StraightTrace(a, b) ==
    [id |-> "A", county |-> "Anoka", verts |-> <<[X |-> a, M |-> 0], [X |-> b, M |-> b - a]>>]

\* section 2, tool branch, the horizontal intervals varying
GridHorizParams ==
    {[GridHardCoded EXCEPT !.major_horiz_interval = HorizUnit * mj,
                           !.minor_horiz_interval = HorizUnit * mn] :
        mj \in 1..MaxHorizK, mn \in 1..MaxHorizK}

\* the reference grid generator on one straight trace of any extent
InitGridExtent ==
    /\ script = "grid"
    /\ mode = "tool" /\ locals \in GridHorizParams
    /\ inputs \in {[xsln_file |-> <<StraightTrace(100 * a, 100 * b)>>] :
                      a \in 0..MaxExtentX, b \in 1..MaxExtentX}
    /\ inputs.xsln_file[1].verts[1].X < inputs.xsln_file[1].verts[2].X
    /\ pc = "s3"
    /\ gdb = NoDatasets
    /\ messages = <<>>

SpecGridExtent == InitGridExtent /\ [][NextGrid]_vars

\* Describe(xsln_file).Extent of a trace file with at least one trace
ExtentXMin ==
    SetMin(UNION {{inputs.xsln_file[i].verts[k].X : k \in DOMAIN inputs.xsln_file[i].verts} :
                     i \in DOMAIN inputs.xsln_file})
ExtentXMax ==
    SetMax(UNION {{inputs.xsln_file[i].verts[k].X : k \in DOMAIN inputs.xsln_file[i].verts} :
                     i \in DOMAIN inputs.xsln_file})

\* C22: utmx_min is a multiple of 1000 at or below the extent's XMin,
\* utmx_max a multiple of 1000 at or above its XMax, and every coordinate
\* value at a major or minor step from utmx_min that lies within
\* [XMin, XMax] is in the major or the minor list.
C22_RoundedOutward ==
    script = "grid" /\ inputs.xsln_file # <<>> /\ locals.major_horiz_interval > 0 =>
       /\ Assigned("utmx_min") =>
             /\ locals.utmx_min % 1000 = 0 /\ locals.utmx_min <= ExtentXMin
             /\ locals.utmx_max % 1000 = 0 /\ locals.utmx_max >= ExtentXMax
       /\ Assigned("minor_utmx") =>
             \A step \in {locals.major_horiz_interval, locals.minor_horiz_interval} :
                \A k \in 0..((ExtentXMax - locals.utmx_min) \div step) :
                    LET v == locals.utmx_min + k * step
                    IN  ExtentXMin <= v /\ v <= ExtentXMax =>
                           v \in Range(locals.major_utmx) \cup Range(locals.minor_utmx)


-----------------------------------------------------------------------------
(* Reference grid: the order of the rows                                   *)

\* the place of a trace in the trace file
TracePlace(id) == CHOOSE i \in DOMAIN inputs.xsln_file : inputs.xsln_file[i].id = id

\* C23: in elevation_ref_lines every 'major' row precedes every 'minor' row
\* and labels increase within a rank; in xcoord_ref_lines the rows follow the
\* trace-file order of their traces, and within a trace every 'major' row
\* precedes every 'minor' row, with labels that do not decrease within a rank.
C23_RowsInSequenceOrder ==
    script = "grid" =>
       /\ LET rows == RowsOf("elevation_ref_lines")
          IN  \A i, j \in DOMAIN rows : i < j =>
                 /\ ~(rows[i].rank = "minor" /\ rows[j].rank = "major")
                 /\ rows[i].rank = rows[j].rank => rows[i].label < rows[j].label
       /\ LET rows == RowsOf("xcoord_ref_lines")
              idf == locals.xsln_id_field
          IN  \A i, j \in DOMAIN rows : i < j =>
                 /\ TracePlace(rows[i][idf]) <= TracePlace(rows[j][idf])
                 /\ rows[i][idf] = rows[j][idf] =>
                       /\ ~(rows[i]["rank"] = "minor" /\ rows[j]["rank"] = "major")
                       /\ rows[i]["rank"] = rows[j]["rank"] =>
                             rows[i]["label"] <= rows[j]["label"]

C23_Witness ==
    /\ script = "grid" /\ pc = "done"
    /\ Len(inputs.xsln_file) = 2
    /\ \A t \in DOMAIN inputs.xsln_file : \A r \in {"major", "minor"} :
          \E k \in DOMAIN RowsOf("xcoord_ref_lines") :
             /\ RowsOf("xcoord_ref_lines")[k][locals.xsln_id_field] = inputs.xsln_file[t].id
             /\ RowsOf("xcoord_ref_lines")[k]["rank"] = r
    /\ \E i, j \in DOMAIN RowsOf("xcoord_ref_lines") :
          /\ i < j
          /\ RowsOf("xcoord_ref_lines")[i]["label"] = RowsOf("xcoord_ref_lines")[j]["label"]
          /\ RowsOf("xcoord_ref_lines")[i]["rank"] = RowsOf("xcoord_ref_lines")[j]["rank"]
          /\ RowsOf("xcoord_ref_lines")[i][locals.xsln_id_field] =
             RowsOf("xcoord_ref_lines")[j][locals.xsln_id_field]
    /\ \A r \in {"major", "minor"} :
          \E k \in DOMAIN RowsOf("elevation_ref_lines") :
             RowsOf("elevation_ref_lines")[k].rank = r


-----------------------------------------------------------------------------
(* Vertical marker lines: the Dissolve field list in any field order       *)

\* the fields of a single-part intersect result: system fields, a FID (as a
\* shapefile workspace has it), the trace ID and an attribute
IntersectResultFields == {"OBJECTID", "Shape", "FID", "Shape_Length", "et_id", "unit"}

\* the orders ListFields may give them in
FieldOrders ==
    {f \in [1..Cardinality(IntersectResultFields) -> IntersectResultFields] :
        \A i, j \in DOMAIN f : i # j => f[i] # f[j]}

\* the marker script from section 5 on, after an intersection that found
\* nothing, with the fields of the single-part result in any order
InitDissolveOrder ==
    /\ script = "vertical" /\ mode = "test"
    /\ inputs = [xsln |-> <<>>,
                 intersect_fc |-> [shapeType |-> "Polygon", table |-> PolygonTable(<<>>, "")]]
    /\ locals = Assign(VerticalHardCoded,
                       [shape |-> "Polygon",
                        output_fc_temp_multi |-> output_name \o "_temp_multi",
                        output_fc_temp1 |-> output_name \o "_temp1"])
    /\ \E order \in FieldOrders :
          gdb = (output_name \o "_temp_multi" :> [fields |-> order, rows |-> <<>>]) @@
                (output_name \o "_temp1" :> [fields |-> order, rows |-> <<>>])
    /\ pc = "s5"
    /\ messages = <<>>

NextDissolveOrder ==
    \/ VerticalSection5 \/ VerticalSection6 \/ VerticalSection7
    \/ VerticalSection8 \/ VerticalSection9 \/ VerticalSection10

SpecDissolveOrder == InitDissolveOrder /\ [][NextDissolveOrder]_vars

\* C24: the field list passed to Dissolve is the set of the fields of the
\* single-part intersect result without OBJECTID, Shape, FID and
\* Shape_Length, whatever the order of the fields.
C24_DissolveFieldsComplete ==
    /\ script = "vertical" /\ Assigned("field_name_list")
    /\ locals.output_fc_temp1 \in DOMAIN gdb
    => Range(locals.field_name_list) =
          Range(gdb[locals.output_fc_temp1].fields) \
             {"OBJECTID", "Shape", "FID", "Shape_Length"}


\* ---------------------------------------------------------------------------
\* Construction records in constr_cwi (Get_CWI_data_dev.py, lines 77-82, 132-147)

\* the source record a row of constr_cwi was copied from: its c5c2 fields
SourceFields(row) ==
    [relateid |-> row.relateid, from_depth |-> row.from_depth,
     to_depth |-> row.to_depth]

\* how many rows of a table are copies of the record c
Copies(rows, c) == Cardinality({i \in DOMAIN rows : SourceFields(rows[i]) = c})

\* C25: every record of the source construction table whose relate-ID is that
\* of a well in the well point output is in constr_cwi exactly once (as many
\* copies as the source table holds of it), also when the well lies in the
\* buffer of several traces and has several rows in the well point output.
C25_RecordsExactlyOnce ==
    (script = "cwi" /\ "constr_cwi" \in DOMAIN gdb /\ pc # "constr")
        => \A k \in DOMAIN inputs.state_constr_table :
              LET c == inputs.state_constr_table[k]
              IN  (\E i \in DOMAIN gdb["wwpt"].rows :
                      gdb["wwpt"].rows[i].relateid = c.relateid)
                  => Copies(gdb["constr_cwi"].rows, c)
                        = Copies(inputs.state_constr_table, c)


\* ---------------------------------------------------------------------------
\* Input datasets are read only (Polygon_Profile_Intersect.py lines 81-103,
\* Vertical_Lines_Intersect.py lines 121-141, RasterProfiles.py lines 94-166)

\* the datasets of the workspace other than the named one are as they were
OnlyWrites(name) ==
    \A n \in DOMAIN gdb' : n # name => n \in DOMAIN gdb /\ gdb'[n] = gdb[n]

\* C26: no step of any script changes an input dataset (trace file, original
\* polygon layer, intersect layer, 3D profiles, rasters, well files), and the
\* step that adds and calculates unique_id writes to one dataset only: the
\* temporary copy of the polygons, or the temporary dissolved intersect
\* result; also when the field is already there and AddField fails.
C26_InputsUnchanged ==
    [][/\ inputs' = inputs
       /\ (script = "polygon" /\ pc = "s3") => OnlyWrites(locals'.polygons)
       /\ (script = "vertical" /\ pc = "s6") => OnlyWrites(locals.output_fc_temp)]_vars

\* the polygon layer already has a unique_id field, so that AddField fails:
\* the temporary copy has the key calculated, the input its old values
C26_Witness ==
    /\ script = "polygon" /\ pc = "s5"
    /\ "unique_id" \in Range(inputs.polygons_orig.fields)
    /\ locals.polygons \in DOMAIN gdb
    /\ \E i \in DOMAIN inputs.polygons_orig.rows :
          /\ inputs.polygons_orig.rows[i].unique_id = "old"
          /\ gdb[locals.polygons].rows[i].unique_id = gdb[locals.polygons].rows[i].OBJECTID
    /\ \E i \in DOMAIN messages : messages[i] = Message("unable to add field", "unique_id")


\* ---------------------------------------------------------------------------
\* Reference lines and the display width (CreateReferenceGrid.py, lines
\* 101-104, 162-195, 283-299)

\* 0 <= x <= max_x_disp, for a display X
WithinDisplayWidth(x) ==
    RatLE(ToRat(min_x_disp), x) /\ RatLE(x, ToRat(locals.max_x_disp))

\* C27: every elevation reference line, major or minor, runs from X = 0 to
\* X = max_x_disp, and every vertical x coordinate line written for a trace is
\* at a display X with 0 <= X <= max_x_disp.
C27_LinesWithinDisplayWidth ==
    /\ ElevationLinesWritten =>
          \A k \in DOMAIN RowsOf("elevation_ref_lines") :
              LET line == RowsOf("elevation_ref_lines")[k]["SHAPE"]
              IN  /\ line[1].X = ToRat(0)
                  /\ line[2].X = ToRat(locals.max_x_disp)
    /\ XcoordLinesWritten =>
          \A k \in DOMAIN RowsOf("xcoord_ref_lines") :
              LET line == RowsOf("xcoord_ref_lines")[k]["SHAPE"]
              IN  WithinDisplayWidth(line[1].X) /\ WithinDisplayWidth(line[2].X)
=============================================================================
